---------------------------- MODULE Spec2Model ----------------------------
(***************************************************************************)
(* simply-kaspa-indexer: the concurrent ingestion and acceptance pipeline. *)
(* Block Processor, Transaction Processor, Virtual-Chain Processor and     *)
(* Checkpoint Coordinator run as independent tasks over bounded queues and *)
(* one relational store.  Hashes are small integers; 0 stands for NULL /   *)
(* None.                                                                   *)
(***************************************************************************)
EXTENDS Integers, Sequences, FiniteSets, TLC

\* ------------------------------------------------------------------ bounds
TailLen == 0            \* blocks the node reveals after the merge block
MaxChunks == 199        \* chunks a peer sends on one connection
MaxNonce == 2           \* nonces a peer puts in its pings
PeerQueueCap == 1       \* messages of the peer the importer has not received yet
MaxAttempts == 12       \* failed import attempts explored
ResumeStored == 5        \* blocks an earlier run had stored when it was stopped
LiveLen == 8             \* blocks reported to the coordinator where its progress is checked
MaxRules == 2
MaxCacheOps == 6
MaxCapacity == 2
RetentionShort == 2500  \* a retention, in milliseconds, that the whole store has outlived
RetentionMid == 5500    \* a retention that the blocks up to BlockR have outlived
RetentionLong == 7500   \* a retention that the blocks up to BlockX have outlived
MaxOverrides == 1       \* tables given a retention of their own
MaxStepErrors == 1      \* pruning steps that fail in one run
ShortLen == 5           \* DAG prefix explored where the virtual chain is not followed
StartupLen == 10         \* DAG prefix explored around the start-up decision and the shutdown
IdleBatchSize == 3      \* a batch_size that an idle buffer and one more block do not fill
InitialTip == 1         \* blocks the node already holds when the indexer starts
MaxNodeLead == 1        \* blocks the node may be ahead of the fetcher
BatchSize == 2          \* batch_size of process_blocks, in blocks
TxBatchSize == 3        \* batch_size of process_transactions, in block_tx rows
QueueCap == 1           \* capacity of the Blocks and Transactions queues
CpQueueCap == 1         \* capacity of the Checkpoint queue
MaxSelections == 1      \* save intervals that elapse during the exploration
CoordLen == 8           \* blocks reported to the coordinator when it is explored alone
FeedLag == 1            \* blocks between the reports of the two processors
VcpLag == 3             \* blocks the virtual chain candidates may trail the block reports
ClockStep == 60         \* seconds by which the coordinator's clock advances
ClockMax == 180         \* elapsed seconds beyond which the clock is not followed
VcpWindow == 12         \* vcp_window, in seconds
VcpInterval == 3000     \* vcp_interval, in milliseconds
MaxTipDistance == 12    \* tip distance beyond which reorgs are not followed

\* ------------------------------------------------------- program constants
NOOP_DELETES_BEFORE_VCP == 10
CHECKPOINT_SAVE_INTERVAL == 60
CHECKPOINT_WARN_INTERVAL == 120
CHECKPOINT_FAILED_TIMEOUT == 600
net_bps == 10
VCP_MAX_LEAD_SECONDS == 60
INITIAL_TIP_DISTANCE == 10
REORGS_BEFORE_INCREASE == 3
SYNCED_BELOW == 200
IBD_BATCH_SIZE == 99
IBD_RETRIES == 10

NULL == 0

\* ------------------------------------------------------------- environment
\* The node's DAG, in the order the fetcher delivers it (DAG traversal order).
\* Block i has hash i.  A fork sits where the virtual chain can first be
\* followed:
\*   ForkC  : a chain block,
\*   ForkH  : child of ForkC, selected tip while it is the newest block,
\*   ForkH2 : a second child of ForkC, parallel to ForkH, which wins the chain,
\*   Merge  : child of ForkH and ForkH2 with selected parent ForkH2.
\* The blocks after Merge form a plain chain.
ForkC == NOOP_DELETES_BEFORE_VCP
ForkH == ForkC + 1
ForkH2 == ForkC + 2
Merge == ForkC + 3
NumBlocks == Merge + TailLen

\* A later stretch of the DAG, the one a store holds when the pruner looks at
\* it.  The indexer started at PruneFirst.  BlockR is parallel to BlockS1 and
\* merged by PruneMerge; the blocks from BlockS2 on form a plain chain.
PruneFirst == NumBlocks + 7
BlockX == PruneFirst + 1
BlockS1 == PruneFirst + 2
BlockR == PruneFirst + 3
PruneMerge == PruneFirst + 4
BlockS2 == PruneFirst + 5
PruneTip == PruneFirst + 6

Parents(i) ==
    IF i = ForkH2 THEN {ForkC}
    ELSE IF i = Merge THEN {ForkH, ForkH2}
    ELSE IF i = BlockR THEN {BlockX}
    ELSE IF i = PruneMerge THEN {BlockS1, BlockR}
    ELSE {i - 1}

\* Scores grow along the DAG; parallel blocks share a score.
Level(i) == IF i >= ForkH2 THEN i - 1 ELSE i
blue_score(i) == 1500 * Level(i)
daa_score(i) == 300 * Level(i) + 7
timestamp(i) == 1000 * i

\* Transactions.  Every block carries its coinbase; block 2 carries TxA, and
\* blocks 3 and 4 both carry TxB, which spends output 0 of TxA and one outpoint
\* created before the start block.
TxA == 1
TxB == 2
Coinbase(i) == 100 + i
OldTx == 99
\* The later stretch: BlockX carries TxX, which spends an outpoint created
\* before the start block and has two outputs; TxS1 (BlockS1) and TxR (BlockR)
\* both spend output 0 of TxX, and TxS2 (BlockS2) spends output 1.
TxX == TxB + 1
TxS1 == TxB + 2
TxR == TxB + 3
TxS2 == TxB + 4
BlockTxs(i) ==
    IF i = 2 THEN <<Coinbase(i), TxA>>
    ELSE IF i \in {3, 4} THEN <<Coinbase(i), TxB>>
    ELSE IF i = BlockX THEN <<Coinbase(i), TxX>>
    ELSE IF i = BlockS1 THEN <<Coinbase(i), TxS1>>
    ELSE IF i = BlockR THEN <<Coinbase(i), TxR>>
    ELSE IF i = BlockS2 THEN <<Coinbase(i), TxS2>>
    ELSE <<Coinbase(i)>>

TxInputs(t) ==
    IF t = TxB THEN << [previous_outpoint_hash |-> TxA, previous_outpoint_index |-> 0],
                       [previous_outpoint_hash |-> OldTx, previous_outpoint_index |-> 1] >>
    ELSE IF t = TxX
        THEN << [previous_outpoint_hash |-> OldTx, previous_outpoint_index |-> 0] >>
    ELSE IF t \in {TxS1, TxR}
        THEN << [previous_outpoint_hash |-> TxX, previous_outpoint_index |-> 0] >>
    ELSE IF t = TxS2
        THEN << [previous_outpoint_hash |-> TxX, previous_outpoint_index |-> 1] >>
    ELSE << >>
TxOutputs(t) ==
    IF t = TxA THEN << [amount |-> 7, address |-> 71], [amount |-> 8, address |-> 72] >>
    ELSE IF t = TxB THEN << [amount |-> 6, address |-> 73] >>
    ELSE IF t = TxX THEN << [amount |-> 2, address |-> 77], [amount |-> 2, address |-> 78] >>
    ELSE IF t \in {TxS1, TxR, TxS2} THEN << [amount |-> 2, address |-> 79] >>
    ELSE << [amount |-> 50, address |-> 70] >>

\* The node's selected chain when its newest block is tip.
SelectedChain(tip) ==
    IF tip <= ForkH THEN [k \in 1..tip |-> k]
    ELSE [k \in 1..(tip - 1) |-> IF k <= ForkC THEN k ELSE k + 1]

\* Transactions a chain block accepts: those of its selected parent's merge set.
AcceptedBy(h) ==
    IF h = ForkH2 THEN {Coinbase(ForkC)}
    ELSE IF h = Merge THEN {Coinbase(ForkH2), Coinbase(ForkH)}
    ELSE IF h = 3 THEN {Coinbase(2), TxA}
    ELSE IF h = 4 THEN {Coinbase(3), TxB}
    ELSE IF h = BlockS1 THEN {Coinbase(BlockX), TxX}
    ELSE IF h = BlockR THEN {}
    ELSE IF h = PruneMerge THEN {Coinbase(BlockS1), TxS1, Coinbase(BlockR)}
    ELSE IF h = PruneTip THEN {Coinbase(BlockS2), TxS2}
    ELSE IF h > 1 THEN {Coinbase(h - 1)}
    ELSE {}

Range(s) == {s[k] : k \in DOMAIN s}
SeqMax(a, b) == IF a >= b THEN a ELSE b
SeqMin(a, b) == IF a <= b THEN a ELSE b
Last(s) == s[Len(s)]


\* The pruning-point UTXO set as the peer sends it, in chunks of outpoints.
\* OldTx has outpoints in both chunks; Coinbase(1) is accepted by block 2 later.
SnapshotChunks ==
    << << [transaction_id |-> OldTx, index |-> 0, amount |-> 4, address |-> 74],
          [transaction_id |-> OldTx, index |-> 1, amount |-> 5, address |-> 75] >>,
       << [transaction_id |-> OldTx, index |-> 2, amount |-> 3, address |-> 76],
          [transaction_id |-> Coinbase(1), index |-> 0, amount |-> 50, address |-> 70] >> >>

\* ------------------------------------------------------------------- state
VARIABLES
    \* configuration (settings.cli_args), fixed at start-up
    disable_virtual_chain_processing, disable_transaction_processing,
    batch_size, tx_batch_size,
    \* the length of the DAG prefix the node reveals
    dag_end,
    \* whether start-up imports the UTXO set, and the chunks persisted so far
    utxo_set_import, utxo_chunk_count,
    \* node and fetcher
    node_tip, fetch_pos, rpc_blocks_queue, txs_queue,
    \* process_blocks
    pb_pc, pb_checkpoint_blocks, pb_synced, pb_push, first_block, vcp_started,
    noop_delete_count, start_vcp, last_block,
    \* process_transactions
    pt_pc, pt_checkpoint_blocks, pt_push, transactions, block_tx, tx_id_cache,
    \* process_virtual_chain
    pv_pc, start_hash, tip_distance, res_removed, res_added,
    \* process_virtual_chain: the dynamic tip distance
    dynamic_tip_distance, synced, tip_distance_history, added_blocks_count, rows_removed,
    \* observation only: batches without a removed row since tip_distance last grew
    quiet_batches,
    \* process_checkpoints
    checkpoint_queue, checkpoint_candidate, cp_ok_blocks, cp_ok_txs,
    metrics_checkpoint_origin, intervals_elapsed, cp_failed,
    blocks_processed, txs_processed, last_block_blue_score, last_tx_blue_score,
    \* seconds since checkpoint_last_saved and since checkpoint_last_warned
    since_last_saved, since_last_warned,
    \* observation only: the hashes consumed from each origin since the last save
    seen_blocks, seen_txs,
    \* the store
    db_blocks, db_block_parent, db_transactions, db_transactions_inputs,
    db_transactions_outputs, db_blocks_transactions, db_addresses_transactions,
    db_transactions_acceptances, db_block_checkpoint,
    \* the vars row kept under the vcp_checkpoint key
    db_vcp_checkpoint,
    \* observation only: what each stage has dequeued, consumed and written
    restarts, pb_dequeued, pt_dequeued, cp_consumed, vcp_log,
    \* observation only: the rows of the flush at hand were all stored before
    pb_second_pass, pt_second_pass,
    \* SignalHandler.shutdown_sent, and the stage tasks that have returned
    shutdown_sent, stopped,
    \* start_processing: the import flags of the command line and how far
    \* main has come
    force_utxo_import, ignore_checkpoint, disable_initial_utxo_import, main_pc,
    \* UtxoSetImporter: where start and receive_and_handle stand, whether a peer
    \* address is known, the messages the peer has sent and the importer has
    \* not received yet, the chunk being persisted, the messages still to send
    \* for the message at hand, and start's completed
    imp_pc, peer_address, peer_channel, utxo_chunk, to_send, completed,
    \* observation only: RequestNextPruningPointUtxoSetChunk messages sent on
    \* this connection, and attempts that have failed
    next_requests, failed_attempts,
    \* prune: the retention settings, where the run stands, its start time, the
    \* failed steps counted, and db_pruner.results / completed_successfully of
    \* the metrics
    pruning_config, pr_pc, common_start_time, step_errors, pr_results,
    completed_successfully,
    \* prune_transactions: the open store transaction (its view of the tables and
    \* the locals of the function), NULL while none is open
    pr_tx,
    \* observation only: the tables as the run found them
    store_before,
    \* FilterConfig: the configuration at hand and what validate returned for it
    filter_config, validated,
    \* FifoCache: map, order and capacity
    cache_map, cache_order, capacity,
    \* observation only: the keys held, oldest insertion first; the last
    \* operation and the key it evicted; operations applied so far
    cache_held, cache_last, cache_ops

pruneVars == <<pruning_config, pr_pc, common_start_time, step_errors, pr_results,
               completed_successfully, pr_tx, store_before>>
filterVars == <<filter_config, validated>>
cacheVars == <<cache_map, cache_order, capacity, cache_held, cache_last, cache_ops>>
auxVars == <<pruneVars, filterVars, cacheVars>>
cfgVars == <<disable_virtual_chain_processing, disable_transaction_processing,
             batch_size, tx_batch_size, dag_end>>
sigVars == <<shutdown_sent, stopped>>
peerVars == <<imp_pc, peer_address, peer_channel, utxo_chunk, to_send, completed,
              next_requests, failed_attempts>>
mainVars == <<force_utxo_import, ignore_checkpoint, disable_initial_utxo_import, main_pc>>
importVars == <<utxo_set_import, utxo_chunk_count>>
envVars == <<node_tip, fetch_pos, rpc_blocks_queue, txs_queue>>
pbVars == <<pb_pc, pb_checkpoint_blocks, pb_synced, pb_push, first_block, vcp_started,
            noop_delete_count, start_vcp, last_block>>
ptVars == <<pt_pc, pt_checkpoint_blocks, pt_push, transactions, block_tx, tx_id_cache>>
pvVars == <<pv_pc, start_hash, tip_distance, res_removed, res_added>>
tdVars == <<dynamic_tip_distance, synced, tip_distance_history, added_blocks_count,
            rows_removed, quiet_batches>>
cpVars == <<checkpoint_candidate, cp_ok_blocks, cp_ok_txs, metrics_checkpoint_origin,
            intervals_elapsed, cp_failed,
            blocks_processed,
            txs_processed, last_block_blue_score, last_tx_blue_score,
            since_last_saved, since_last_warned, seen_blocks, seen_txs>>
blockTables == <<db_blocks, db_block_parent>>
txTables == <<db_transactions, db_transactions_inputs, db_transactions_outputs,
              db_blocks_transactions, db_addresses_transactions>>
obsVars == <<restarts, pb_dequeued, pt_dequeued, cp_consumed, vcp_log>>
passVars == <<pb_second_pass, pt_second_pass>>
vars == <<cfgVars, sigVars, mainVars, peerVars, auxVars, db_vcp_checkpoint, tdVars, importVars, envVars, pbVars, ptVars, pvVars, cpVars, checkpoint_queue,
          blockTables, txTables, db_transactions_acceptances, db_block_checkpoint,
          obsVars, passVars>>

\* Block b has every row Block Processor writes for it.
BlockRowsCommitted(b) ==
    /\ b \in db_blocks
    /\ \A p \in Parents(b) : <<b, p>> \in db_block_parent

\* Block b has every row Transaction Processor writes for it.
TxRowsCommitted(b) ==
    \A t \in Range(BlockTxs(b)) :
        /\ <<b, t>> \in db_blocks_transactions
        /\ \E r \in db_transactions : r.transaction_id = t
        /\ \A k \in DOMAIN TxInputs(t) :
              \E r \in db_transactions_inputs : r.transaction_id = t /\ r.index = k - 1
        /\ \A k \in DOMAIN TxOutputs(t) :
              \E r \in db_transactions_outputs : r.transaction_id = t /\ r.index = k - 1

\* Block b has every addresses_transactions row Transaction Processor derives
\* for it: one per output, and one per input whose spent output is stored.
AddressRowsCommitted(b) ==
    \A t \in Range(BlockTxs(b)) :
        /\ \A k \in DOMAIN TxOutputs(t) :
              \E r \in db_addresses_transactions :
                  r.transaction_id = t /\ r.address = TxOutputs(t)[k].address
        /\ \A k \in DOMAIN TxInputs(t) :
              \A o \in {x \in db_transactions_outputs :
                            /\ x.transaction_id = TxInputs(t)[k].previous_outpoint_hash
                            /\ x.index = TxInputs(t)[k].previous_outpoint_index} :
                  \E r \in db_addresses_transactions :
                      r.transaction_id = t /\ r.address = o.script_public_key_address

\* settings.disable_vcp_wait_for_sync: the flag, or forced by a UTXO set import
disable_vcp_wait_for_sync == utxo_set_import

\* ------------------------------------------------------------ store codec
\* INSERT ... ON CONFLICT DO NOTHING: a row whose key is already present, in
\* the table or earlier in the same statement, is skipped.
InsertIgnore(table, rows, Key(_)) ==
    table \cup {rows[k] : k \in {n \in DOMAIN rows :
                     /\ ~ \E e \in table : Key(e) = Key(rows[n])
                     /\ ~ \E j \in 1..(n - 1) : Key(rows[j]) = Key(rows[n])}}

HashKey(h) == h
PairKey(p) == p
insert_blocks_none(table, hashes) == table
insert_blocks(table, hashes) == InsertIgnore(table, hashes, HashKey)
insert_block_parents(table, rows) == InsertIgnore(table, rows, PairKey)

\* DELETE FROM transactions_acceptances WHERE block_hash = ANY($1)
delete_transaction_acceptances_none(table, block_hashes) == table
delete_transaction_acceptances(table, block_hashes) ==
    {r \in table : r.block_hash \notin block_hashes}

\* the unique key of transactions_acceptances
AcceptanceKey(r) == r.transaction_id
insert_transaction_acceptances_plain(table, rows) == table \cup {rows[k] : k \in DOMAIN rows}
insert_transaction_acceptances(table, rows) == InsertIgnore(table, rows, AcceptanceKey)

\* ------------------------------------------------------------ the mappers
map_block_parents(i) == [k \in 1..Cardinality(Parents(i)) |->
    <<i, CHOOSE p \in Parents(i) :
            Cardinality({q \in Parents(i) : q < p}) = k - 1>>]

RECURSIVE Flatten(_)
Flatten(ss) == IF ss = << >> THEN << >> ELSE Head(ss) \o Flatten(Tail(ss))

SkipN(s, n) == IF n >= Len(s) THEN << >> ELSE SubSeq(s, n + 1, Len(s))

CheckpointBlock(o, h) == [origin |-> o, hash |-> h]
HashesOf(cbs) == {cbs[k].hash : k \in DOMAIN cbs}

\* --------------------------------------------------------- node and fetcher
\* The node learns the next block of the DAG.
NodeGrow ==
    /\ node_tip < dag_end
    /\ node_tip - (fetch_pos - 1) < MaxNodeLead
    /\ node_tip' = node_tip + 1
    /\ UNCHANGED <<fetch_pos, rpc_blocks_queue, txs_queue, cfgVars, sigVars, mainVars, peerVars, auxVars, db_vcp_checkpoint, tdVars, importVars, pbVars, ptVars,
                   pvVars, cpVars, checkpoint_queue, blockTables, txTables,
                   db_transactions_acceptances, db_block_checkpoint, obsVars, passVars>>

\* The fetcher, started once a UTXO set import is through, forwards the next
\* block to both queues; it blocks while either is full.  synced: the block is the node's newest when it is fetched.
FetchBlock ==
    /\ utxo_set_import => utxo_chunk_count = Len(SnapshotChunks)
    /\ fetch_pos <= node_tip
    /\ Len(rpc_blocks_queue) < QueueCap
    /\ disable_transaction_processing \/ Len(txs_queue) < QueueCap
    /\ rpc_blocks_queue' = Append(rpc_blocks_queue,
                              [hash |-> fetch_pos, synced |-> fetch_pos = node_tip])
    /\ txs_queue' = IF disable_transaction_processing THEN txs_queue
                    ELSE Append(txs_queue, fetch_pos)
    /\ fetch_pos' = fetch_pos + 1
    /\ UNCHANGED <<node_tip, cfgVars, sigVars, mainVars, peerVars, auxVars, db_vcp_checkpoint, tdVars, importVars, pbVars, ptVars, pvVars, cpVars,
                   checkpoint_queue, blockTables, txTables,
                   db_transactions_acceptances, db_block_checkpoint, obsVars, passVars>>

\* ------------------------------------------------------------ process_blocks
\* rpc_blocks_queue.pop(), buffering, and the flush decision.  Whether two
\* seconds have passed since the last flush is a free choice, except after the
\* stage has idled on an empty queue for longer than that ("stale").
PbPopTimerOff ==
    /\ pb_pc \in {"pop", "stale"}
    /\ rpc_blocks_queue # << >>
    /\ LET b == Head(rpc_blocks_queue).hash
           cbs == Append(pb_checkpoint_blocks, CheckpointBlock("Blocks", b))
       IN /\ rpc_blocks_queue' = Tail(rpc_blocks_queue)
          /\ pb_checkpoint_blocks' = cbs
          /\ pb_synced' = Head(rpc_blocks_queue).synced
          /\ pb_dequeued' = pb_dequeued \cup {b}
          /\ pb_second_pass' = \A k \in DOMAIN cbs : BlockRowsCommitted(cbs[k].hash)
          /\ \E elapsed \in {FALSE} :
                pb_pc' = IF Len(cbs) >= batch_size \/ elapsed
                         THEN "insert_blocks" ELSE "pop"
    /\ UNCHANGED <<node_tip, fetch_pos, txs_queue, cfgVars, sigVars, mainVars, peerVars, auxVars, db_vcp_checkpoint, tdVars, importVars, pb_push, first_block,
                   vcp_started, noop_delete_count, start_vcp, last_block, ptVars,
                   pvVars, cpVars, checkpoint_queue, blockTables, txTables,
                   db_transactions_acceptances, db_block_checkpoint,
                   pt_second_pass, restarts, pt_dequeued, cp_consumed, vcp_log>>

PbPop ==
    /\ pb_pc \in {"pop", "stale"}
    /\ rpc_blocks_queue # << >>
    /\ LET b == Head(rpc_blocks_queue).hash
           cbs == Append(pb_checkpoint_blocks, CheckpointBlock("Blocks", b))
       IN /\ rpc_blocks_queue' = Tail(rpc_blocks_queue)
          /\ pb_checkpoint_blocks' = cbs
          /\ pb_synced' = Head(rpc_blocks_queue).synced
          /\ pb_dequeued' = pb_dequeued \cup {b}
          /\ pb_second_pass' = \A k \in DOMAIN cbs : BlockRowsCommitted(cbs[k].hash)
          /\ \E elapsed \in (IF pb_pc = "stale" THEN {TRUE} ELSE BOOLEAN) :
                pb_pc' = IF Len(cbs) >= batch_size \/ elapsed
                         THEN "insert_blocks" ELSE "pop"
    /\ UNCHANGED <<node_tip, fetch_pos, txs_queue, cfgVars, sigVars, mainVars, peerVars, auxVars, db_vcp_checkpoint, tdVars, importVars, pb_push, first_block,
                   vcp_started, noop_delete_count, start_vcp, last_block, ptVars,
                   pvVars, cpVars, checkpoint_queue, blockTables, txTables,
                   db_transactions_acceptances, db_block_checkpoint,
                   pt_second_pass, restarts, pt_dequeued, cp_consumed, vcp_log>>

\* The else branch of the loop: the queue is empty and the stage sleeps; with
\* blocks in the buffer, more than two seconds go by since the last flush.
PbSleep ==
    /\ pb_pc = "pop"
    /\ rpc_blocks_queue = << >>
    /\ pb_checkpoint_blocks # << >>
    /\ pb_pc' = "stale"
    /\ UNCHANGED <<envVars, cfgVars, sigVars, mainVars, peerVars, auxVars, db_vcp_checkpoint, tdVars, importVars, pb_checkpoint_blocks, pb_synced, pb_push,
                   first_block, vcp_started, noop_delete_count, start_vcp, last_block,
                   ptVars, pvVars, cpVars, checkpoint_queue, blockTables, txTables,
                   db_transactions_acceptances, db_block_checkpoint, obsVars, passVars>>

PbInsertBlocks ==
    /\ pb_pc = "insert_blocks"
    /\ db_blocks' = insert_blocks(db_blocks,
                        [k \in DOMAIN pb_checkpoint_blocks |-> pb_checkpoint_blocks[k].hash])
    /\ pb_pc' = "insert_block_parents"
    /\ UNCHANGED <<envVars, cfgVars, sigVars, mainVars, peerVars, auxVars, db_vcp_checkpoint, tdVars, importVars, pb_checkpoint_blocks, pb_synced, pb_push,
                   first_block, vcp_started, noop_delete_count, start_vcp, last_block,
                   ptVars, pvVars, cpVars, checkpoint_queue, db_block_parent, txTables,
                   db_transactions_acceptances, db_block_checkpoint, obsVars, passVars>>

PbInsertBlockParents ==
    /\ pb_pc = "insert_block_parents"
    /\ db_block_parent' = insert_block_parents(db_block_parent,
            Flatten([k \in DOMAIN pb_checkpoint_blocks |->
                        map_block_parents(pb_checkpoint_blocks[k].hash)]))
    /\ pb_pc' = "purge"
    /\ UNCHANGED <<envVars, cfgVars, sigVars, mainVars, peerVars, auxVars, db_vcp_checkpoint, tdVars, importVars, pb_checkpoint_blocks, pb_synced, pb_push,
                   first_block, vcp_started, noop_delete_count, start_vcp, last_block,
                   ptVars, pvVars, cpVars, checkpoint_queue, db_blocks, txTables,
                   db_transactions_acceptances, db_block_checkpoint, obsVars, passVars>>

\* Hashes whose acceptance rows the pre-VCP purge of this flush deletes.
PurgeHashesAll(cbs, first) == HashesOf(cbs)
PurgeHashesEachBatch(cbs, first) == HashesOf(SkipN(cbs, 1))
PurgeHashesNone(cbs, first) == {}
PurgeHashes(cbs, first) == HashesOf(SkipN(cbs, IF first THEN 1 ELSE 0))

\* The pre-VCP acceptance purge and the start_vcp notification.
PbPurgeCountsAll ==
    /\ pb_pc = "purge"
    /\ IF ~vcp_started /\ ~disable_virtual_chain_processing
       THEN LET after == delete_transaction_acceptances(db_transactions_acceptances,
                            PurgeHashes(pb_checkpoint_blocks, first_block))
                tas_deleted == Cardinality(db_transactions_acceptances)
                                 - Cardinality(after)
                count == IF tas_deleted >= 0 THEN noop_delete_count + 1 ELSE 0
            IN /\ db_transactions_acceptances' = after
               /\ first_block' = FALSE
               /\ noop_delete_count' = count
               /\ start_vcp' = (start_vcp \/ count >= NOOP_DELETES_BEFORE_VCP)
               /\ vcp_started' = (count >= NOOP_DELETES_BEFORE_VCP)
       ELSE UNCHANGED <<db_transactions_acceptances, first_block, noop_delete_count,
                        start_vcp, vcp_started>>
    /\ pb_pc' = "publish"
    /\ UNCHANGED <<envVars, cfgVars, sigVars, mainVars, peerVars, auxVars, db_vcp_checkpoint, tdVars, importVars, pb_checkpoint_blocks, pb_synced, pb_push,
                   last_block, ptVars, pvVars, cpVars, checkpoint_queue, blockTables,
                   txTables, db_block_checkpoint, obsVars, passVars>>

PbPurge ==
    /\ pb_pc = "purge"
    /\ IF ~vcp_started /\ ~disable_virtual_chain_processing
       THEN LET after == delete_transaction_acceptances(db_transactions_acceptances,
                            PurgeHashes(pb_checkpoint_blocks, first_block))
                tas_deleted == Cardinality(db_transactions_acceptances)
                                 - Cardinality(after)
                count == IF (disable_vcp_wait_for_sync \/ pb_synced) /\ tas_deleted = 0
                         THEN noop_delete_count + 1 ELSE 0
            IN /\ db_transactions_acceptances' = after
               /\ first_block' = FALSE
               /\ noop_delete_count' = count
               /\ start_vcp' = (start_vcp \/ count >= NOOP_DELETES_BEFORE_VCP)
               /\ vcp_started' = (count >= NOOP_DELETES_BEFORE_VCP)
       ELSE UNCHANGED <<db_transactions_acceptances, first_block, noop_delete_count,
                        start_vcp, vcp_started>>
    /\ pb_pc' = "publish"
    /\ UNCHANGED <<envVars, cfgVars, sigVars, mainVars, peerVars, auxVars, db_vcp_checkpoint, tdVars, importVars, pb_checkpoint_blocks, pb_synced, pb_push,
                   last_block, ptVars, pvVars, cpVars, checkpoint_queue, blockTables,
                   txTables, db_block_checkpoint, obsVars, passVars>>

\* metrics.components.block_processor.update_last_block(last_checkpoint_block)
PbPublish ==
    /\ pb_pc = "publish"
    /\ last_block' = Last(pb_checkpoint_blocks).hash
    /\ pb_push' = pb_checkpoint_blocks
    /\ pb_pc' = "push"
    /\ UNCHANGED <<envVars, cfgVars, sigVars, mainVars, peerVars, auxVars, db_vcp_checkpoint, tdVars, importVars, pb_checkpoint_blocks, pb_synced, first_block,
                   vcp_started, noop_delete_count, start_vcp, ptVars, pvVars, cpVars,
                   checkpoint_queue, blockTables, txTables,
                   db_transactions_acceptances, db_block_checkpoint, obsVars, passVars>>

\* checkpoint_queue.push of one candidate; retried while the queue is full.
PbPushLossy ==
    /\ pb_pc = "push"
    /\ checkpoint_queue' = IF Len(checkpoint_queue) < CpQueueCap
                           THEN Append(checkpoint_queue, Head(pb_push))
                           ELSE checkpoint_queue
    /\ pb_push' = Tail(pb_push)
    /\ IF Tail(pb_push) = << >>
       THEN pb_pc' = "pop" /\ pb_checkpoint_blocks' = << >>
       ELSE UNCHANGED <<pb_pc, pb_checkpoint_blocks>>
    /\ UNCHANGED <<envVars, cfgVars, sigVars, mainVars, peerVars, auxVars, db_vcp_checkpoint, tdVars, importVars, pb_synced, first_block, vcp_started,
                   noop_delete_count, start_vcp, last_block, ptVars, pvVars, cpVars,
                   blockTables, txTables, db_transactions_acceptances,
                   db_block_checkpoint, obsVars, passVars>>
PbPush ==
    /\ pb_pc = "push"
    /\ Len(checkpoint_queue) < CpQueueCap
    /\ checkpoint_queue' = Append(checkpoint_queue, Head(pb_push))
    /\ pb_push' = Tail(pb_push)
    /\ IF Tail(pb_push) = << >>
       THEN pb_pc' = "pop" /\ pb_checkpoint_blocks' = << >>
       ELSE UNCHANGED <<pb_pc, pb_checkpoint_blocks>>
    /\ UNCHANGED <<envVars, cfgVars, sigVars, mainVars, peerVars, auxVars, db_vcp_checkpoint, tdVars, importVars, pb_synced, first_block, vcp_started,
                   noop_delete_count, start_vcp, last_block, ptVars, pvVars, cpVars,
                   blockTables, txTables, db_transactions_acceptances,
                   db_block_checkpoint, obsVars, passVars>>

\* ------------------------------------------------------ transaction mappers
enable_transactions_inputs_resolve == TRUE

map_transaction(t, b) == [transaction_id |-> t, block_time |-> timestamp(b)]
map_block_transaction(t, b) == <<b, t>>
map_transaction_inputs(t) == [k \in DOMAIN TxInputs(t) |->
    [transaction_id |-> t, index |-> k - 1,
     previous_outpoint_hash |-> TxInputs(t)[k].previous_outpoint_hash,
     previous_outpoint_index |-> TxInputs(t)[k].previous_outpoint_index,
     previous_outpoint_script |-> NULL, previous_outpoint_amount |-> NULL]]
map_transaction_outputs(t) == [k \in DOMAIN TxOutputs(t) |->
    [transaction_id |-> t, index |-> k - 1, amount |-> TxOutputs(t)[k].amount,
     script_public_key |-> 1000 + TxOutputs(t)[k].address,
     script_public_key_address |-> TxOutputs(t)[k].address]]
map_transaction_outputs_address(tx) == [k \in DOMAIN TxOutputs(tx.transaction_id) |->
    [address |-> TxOutputs(tx.transaction_id)[k].address,
     transaction_id |-> tx.transaction_id, block_time |-> tx.block_time]]

\* ------------------------------------------------- transaction store codec
TxKey(r) == r.transaction_id
IndexKey(r) == <<r.transaction_id, r.index>>
AddressKey(r) == <<r.address, r.transaction_id, r.block_time>>
Coalesce(a, b) == IF a # NULL THEN a ELSE b

insert_transactions_plain(table, rows) == table \cup {rows[k] : k \in DOMAIN rows}
insert_transactions(table, rows) == InsertIgnore(table, rows, TxKey)
insert_transaction_outputs(table, rows) == InsertIgnore(table, rows, IndexKey)
insert_block_transactions(table, rows) == InsertIgnore(table, rows, PairKey)
insert_address_transactions(table, rows) == InsertIgnore(table, rows, AddressKey)

\* The stored output an input spends, as the LEFT JOIN finds it (NULLs if none).
StoredOutput(outputs, i) ==
    LET m == {o \in outputs : /\ o.transaction_id = i.previous_outpoint_hash
                              /\ o.index = i.previous_outpoint_index}
    IN IF m = {} THEN [script_public_key |-> NULL, amount |-> NULL]
       ELSE CHOOSE o \in m : TRUE

\* INSERT ... SELECT with COALESCE(i.previous_outpoint_*, o.*) when resolving.
ResolveFromNothing(outputs, i) == i
ResolveFromStore(outputs, i) ==
    [i EXCEPT !.previous_outpoint_script =
                  Coalesce(@, StoredOutput(outputs, i).script_public_key),
              !.previous_outpoint_amount =
                  Coalesce(@, StoredOutput(outputs, i).amount)]

insert_transaction_inputs(resolve, table, outputs, rows) ==
    InsertIgnore(table,
                 IF resolve THEN [k \in DOMAIN rows |-> ResolveFromStore(outputs, rows[k])]
                 ELSE rows,
                 IndexKey)

\* tx_outputs_map lookup of the flush: inputs whose output is in the same batch.
PreResolve(tx_outputs, i) ==
    LET m == {k \in DOMAIN tx_outputs :
                 /\ tx_outputs[k].transaction_id = i.previous_outpoint_hash
                 /\ tx_outputs[k].index = i.previous_outpoint_index}
    IN IF m = {} THEN i
       ELSE LET o == tx_outputs[CHOOSE k \in m : TRUE]
            IN [i EXCEPT !.previous_outpoint_script = o.script_public_key,
                         !.previous_outpoint_amount = o.amount]

\* addresses_transactions rows of the spent outputs of the given transactions
insert_address_transactions_from_inputs(table, txs, inputs, outputs, transaction_ids) ==
    table \cup UNION {UNION {
        {[address |-> o.script_public_key_address, transaction_id |-> i.transaction_id,
          block_time |-> t.block_time] :
            o \in {x \in outputs : /\ x.transaction_id = i.previous_outpoint_hash
                                    /\ x.index = i.previous_outpoint_index}} :
            t \in {x \in txs : x.transaction_id = i.transaction_id}} :
            i \in {x \in inputs : x.transaction_id \in transaction_ids}}

\* ------------------------------------------------------ process_transactions
\* Buffering of one block's transactions: a transaction whose id is in
\* tx_id_cache keeps its block relation only.
BufferTxsNoCache(txs, b, buffered, cache) ==
    [transactions |-> buffered \o [k \in DOMAIN txs |-> map_transaction(txs[k], b)],
     tx_id_cache |-> cache \cup Range(txs)]
RECURSIVE BufferTxs(_, _, _, _)
BufferTxs(txs, b, buffered, cache) ==
    IF txs = << >> THEN [transactions |-> buffered, tx_id_cache |-> cache]
    ELSE LET t == Head(txs)
         IN IF t \in cache THEN BufferTxs(Tail(txs), b, buffered, cache)
            ELSE BufferTxs(Tail(txs), b, Append(buffered, map_transaction(t, b)),
                           cache \cup {t})

PtPop ==
    /\ pt_pc = "pop"
    /\ txs_queue # << >>
    /\ LET b == Head(txs_queue)
           buf == BufferTxs(BlockTxs(b), b, transactions, tx_id_cache)
           edges == block_tx \o [k \in DOMAIN BlockTxs(b) |->
                                    map_block_transaction(BlockTxs(b)[k], b)]
       IN /\ txs_queue' = Tail(txs_queue)
          /\ pt_checkpoint_blocks' =
                Append(pt_checkpoint_blocks, CheckpointBlock("Transactions", b))
          /\ transactions' = buf.transactions
          /\ tx_id_cache' = buf.tx_id_cache
          /\ block_tx' = edges
          /\ pt_dequeued' = pt_dequeued \cup {b}
          /\ pt_second_pass' = \A k \in DOMAIN pt_checkpoint_blocks' :
                                   /\ TxRowsCommitted(pt_checkpoint_blocks'[k].hash)
                                   /\ AddressRowsCommitted(pt_checkpoint_blocks'[k].hash)
          /\ \E elapsed \in BOOLEAN :
                pt_pc' = IF Len(edges) >= tx_batch_size \/ (edges # << >> /\ elapsed)
                         THEN "insert" ELSE "pop"
    /\ UNCHANGED <<node_tip, fetch_pos, rpc_blocks_queue, cfgVars, sigVars, mainVars, peerVars, auxVars, db_vcp_checkpoint, tdVars, importVars, pbVars, pt_push,
                   pvVars, cpVars, checkpoint_queue, blockTables, txTables,
                   db_transactions_acceptances, db_block_checkpoint,
                   pb_second_pass, restarts, pb_dequeued, cp_consumed, vcp_log>>

BufferedOutputs(txs) == Flatten([k \in DOMAIN txs |-> map_transaction_outputs(txs[k].transaction_id)])
BufferedInputs(txs) == Flatten([k \in DOMAIN txs |-> map_transaction_inputs(txs[k].transaction_id)])

\* The four inserts spawned together and awaited together: transactions,
\* output addresses, inputs (pre-resolved from the batch), outputs.
PtInsert ==
    /\ pt_pc = "insert"
    /\ LET tx_outputs == BufferedOutputs(transactions)
           raw == BufferedInputs(transactions)
           tx_inputs == IF enable_transactions_inputs_resolve
                        THEN [k \in DOMAIN raw |-> PreResolve(tx_outputs, raw[k])]
                        ELSE raw
       IN /\ db_transactions' = insert_transactions(db_transactions, transactions)
          /\ db_addresses_transactions' =
                insert_address_transactions(db_addresses_transactions,
                    Flatten([k \in DOMAIN transactions |->
                                map_transaction_outputs_address(transactions[k])]))
          /\ db_transactions_inputs' =
                insert_transaction_inputs(enable_transactions_inputs_resolve,
                    db_transactions_inputs, db_transactions_outputs, tx_inputs)
          /\ db_transactions_outputs' =
                insert_transaction_outputs(db_transactions_outputs, tx_outputs)
    /\ pt_pc' = "post"
    /\ UNCHANGED <<envVars, cfgVars, sigVars, mainVars, peerVars, auxVars, db_vcp_checkpoint, tdVars, importVars, pbVars, pt_checkpoint_blocks, pt_push,
                   transactions, block_tx, tx_id_cache, pvVars, cpVars,
                   checkpoint_queue, blockTables, db_blocks_transactions,
                   db_transactions_acceptances, db_block_checkpoint, obsVars, passVars>>

\* After both post-commit tasks: hand the candidates to the push loop.
PtAfter(done) == IF pt_pc = "post" THEN done ELSE "push"

\* insert_block_txs, spawned after the four inserts were awaited.
PtInsertBlockTxs ==
    /\ pt_pc \in {"post", "post_block_txs"}
    /\ db_blocks_transactions' = insert_block_transactions(db_blocks_transactions, block_tx)
    /\ pt_pc' = PtAfter("post_input_addr")
    /\ pt_push' = IF pt_pc = "post" THEN pt_push ELSE pt_checkpoint_blocks
    /\ UNCHANGED <<envVars, cfgVars, sigVars, mainVars, peerVars, auxVars, db_vcp_checkpoint, tdVars, importVars, pbVars, pt_checkpoint_blocks, transactions,
                   block_tx, tx_id_cache, pvVars, cpVars, checkpoint_queue,
                   blockTables, db_transactions, db_transactions_inputs,
                   db_transactions_outputs, db_addresses_transactions,
                   db_transactions_acceptances, db_block_checkpoint, obsVars, passVars>>

\* insert_input_tx_addr, not waiting for the four inserts.
PtInsertInputTxAddrEarly ==
    /\ pt_pc \in {"insert", "post", "post_input_addr"}
    /\ db_addresses_transactions' =
          insert_address_transactions_from_inputs(db_addresses_transactions,
              db_transactions, db_transactions_inputs, db_transactions_outputs,
              {transactions[k].transaction_id : k \in DOMAIN transactions})
    /\ pt_pc' = IF pt_pc = "post_input_addr" THEN "push" ELSE "post_block_txs"
    /\ pt_push' = IF pt_pc = "post" THEN pt_push ELSE pt_checkpoint_blocks
    /\ UNCHANGED <<envVars, cfgVars, sigVars, mainVars, peerVars, auxVars, db_vcp_checkpoint, tdVars, importVars, pbVars, pt_checkpoint_blocks, transactions,
                   block_tx, tx_id_cache, pvVars, cpVars, checkpoint_queue,
                   blockTables, db_transactions, db_transactions_inputs,
                   db_transactions_outputs, db_blocks_transactions,
                   db_transactions_acceptances, db_block_checkpoint, obsVars, passVars>>

\* insert_input_tx_addr, running while insert_block_txs is in flight.
PtInsertInputTxAddr ==
    /\ pt_pc \in {"post", "post_input_addr"}
    /\ db_addresses_transactions' =
          insert_address_transactions_from_inputs(db_addresses_transactions,
              db_transactions, db_transactions_inputs, db_transactions_outputs,
              {transactions[k].transaction_id : k \in DOMAIN transactions})
    /\ pt_pc' = PtAfter("post_block_txs")
    /\ pt_push' = IF pt_pc = "post" THEN pt_push ELSE pt_checkpoint_blocks
    /\ UNCHANGED <<envVars, cfgVars, sigVars, mainVars, peerVars, auxVars, db_vcp_checkpoint, tdVars, importVars, pbVars, pt_checkpoint_blocks, transactions,
                   block_tx, tx_id_cache, pvVars, cpVars, checkpoint_queue,
                   blockTables, db_transactions, db_transactions_inputs,
                   db_transactions_outputs, db_blocks_transactions,
                   db_transactions_acceptances, db_block_checkpoint, obsVars, passVars>>

PtPush ==
    /\ pt_pc = "push"
    /\ Len(checkpoint_queue) < CpQueueCap
    /\ checkpoint_queue' = Append(checkpoint_queue, Head(pt_push))
    /\ pt_push' = Tail(pt_push)
    /\ IF Tail(pt_push) = << >>
       THEN /\ pt_pc' = "pop"
            /\ pt_checkpoint_blocks' = << >>
            /\ transactions' = << >>
            /\ block_tx' = << >>
       ELSE UNCHANGED <<pt_pc, pt_checkpoint_blocks, transactions, block_tx>>
    /\ UNCHANGED <<envVars, cfgVars, sigVars, mainVars, peerVars, auxVars, db_vcp_checkpoint, tdVars, importVars, pbVars, tx_id_cache, pvVars, cpVars,
                   blockTables, txTables, db_transactions_acceptances,
                   db_block_checkpoint, obsVars, passVars>>

\* ------------------------------------------------------------- node RPC
\* The selected chain that ends in block h.
ChainTo(h) == IF h <= ForkH THEN [k \in 1..h |-> k] ELSE SelectedChain(h)

Reverse(q) == [k \in DOMAIN q |-> q[Len(q) + 1 - k]]
SelectSeq2(q, S) == LET In(x) == x \in S IN SelectSeq(q, In)

\* Ascending enumeration of a finite set of integers.
SortedSeq(S) == [k \in 1..Cardinality(S) |->
                    CHOOSE x \in S : Cardinality({y \in S : y < x}) = k - 1]

\* get_virtual_chain_from_block(start_hash, include_accepted_transaction_ids)
get_virtual_chain_from_block(start, tip) ==
    LET cur == SelectedChain(tip)
        old == ChainTo(start)
        added == SelectSeq2(cur, Range(cur) \ Range(old))
    IN [removed_chain_block_hashes |-> Reverse(SelectSeq2(old, Range(old) \ Range(cur))),
        added_chain_block_hashes |-> added,
        accepted_transaction_ids |->
            [k \in DOMAIN added |-> [accepting_block_hash |-> added[k],
                                     accepted_transaction_ids |-> SortedSeq(AcceptedBy(added[k]))]]]

\* ---------------------------------------------------- process_virtual_chain
disable_transaction_acceptance == FALSE

\* remove_chain_blocks: the acceptance rows of the removed chain blocks go.
remove_chain_blocks(table, removed_chain_block_hashes) ==
    delete_transaction_acceptances(table, Range(removed_chain_block_hashes))

\* accept_transactions: one (transaction_id, accepting block) row per accepted id
AcceptanceRows(accepted) ==
    Flatten([k \in DOMAIN accepted |->
        [j \in DOMAIN accepted[k].accepted_transaction_ids |->
            [transaction_id |-> accepted[k].accepted_transaction_ids[j],
             block_hash |-> accepted[k].accepting_block_hash]]])
accept_transactions(table, accepted) ==
    insert_transaction_acceptances(table, AcceptanceRows(accepted))

SaturatingSub(a, b) == IF a >= b THEN a - b ELSE 0

\* The interlock test of the wait loop, for candidate c against the published b.
InterlockOpenAlways(c, b) == TRUE
InterlockOpen(c, b) ==
    /\ b # NULL
    /\ SaturatingSub(daa_score(c), daa_score(b)) < VCP_MAX_LEAD_SECONDS * net_bps

\* tip_distance_history is a VecDeque: its front is the first element.
tip_distance_window == SeqMax((VcpWindow * 1000) \div VcpInterval, 1)
PushFront(h, x) == <<x>> \o h
PopFront(h) == Tail(h)
PopBack(h) == SubSeq(h, 1, Len(h) - 1)
ReorgsCount(h) == Cardinality({k \in DOMAIN h : h[k]})

\* The history once the batch at hand is entered in it.
HistoryWith(h, removed) ==
    PushFront(IF Len(h) = tip_distance_window THEN PopBack(h) ELSE h, removed > 0)

\* The same, growing with the second reorg batch in the window.
TipDistanceAfterTwoReorgs(d, h, is_synced, removed) ==
    LET h1 == HistoryWith(h, removed)
        reorgs_count == ReorgsCount(h1)
    IN IF reorgs_count >= 2
       THEN [tip_distance |-> d + 1,
             tip_distance_history |-> PushFront(PopFront(h1), FALSE)]
       ELSE IF is_synced /\ reorgs_count = 0 /\ d > 0
       THEN [tip_distance |-> d - 1,
             tip_distance_history |->
                 IF Len(h1) = tip_distance_window
                 THEN PushFront(PopFront(h1), TRUE) ELSE h1]
       ELSE [tip_distance |-> d, tip_distance_history |-> h1]

\* The same, going down before VCP is synced too.
TipDistanceAfterUnsynced(d, h, is_synced, removed) ==
    LET h1 == HistoryWith(h, removed)
        reorgs_count == ReorgsCount(h1)
    IN IF reorgs_count >= REORGS_BEFORE_INCREASE
       THEN [tip_distance |-> d + 1,
             tip_distance_history |-> PushFront(PopFront(h1), FALSE)]
       ELSE IF reorgs_count = 0 /\ d > 0
       THEN [tip_distance |-> d - 1,
             tip_distance_history |->
                 IF Len(h1) = tip_distance_window
                 THEN PushFront(PopFront(h1), TRUE) ELSE h1]
       ELSE [tip_distance |-> d, tip_distance_history |-> h1]

\* The tip distance and its history after a batch that removed that many rows.
TipDistanceAfter(d, h, is_synced, removed) ==
    LET h1 == HistoryWith(h, removed)
        reorgs_count == ReorgsCount(h1)
    IN IF reorgs_count >= REORGS_BEFORE_INCREASE
       THEN [tip_distance |-> d + 1,
             tip_distance_history |-> PushFront(PopFront(h1), FALSE)]
       ELSE IF is_synced /\ reorgs_count = 0 /\ d > 0
       THEN [tip_distance |-> d - 1,
             tip_distance_history |->
                 IF Len(h1) = tip_distance_window
                 THEN PushFront(PopFront(h1), TRUE) ELSE h1]
       ELSE [tip_distance |-> d, tip_distance_history |-> h1]

\* Batches without a removed row since the tip distance last grew, counted up
\* to the window; NotGrown until it grows.
NotGrown == 0 - 1
QuietAfter(q, grew, removed) ==
    IF grew THEN 0
    ELSE IF q = NotGrown THEN NotGrown
    ELSE IF removed > 0 THEN 0
    ELSE SeqMin(q + 1, tip_distance_window)

\* A poll that takes the whole response, whatever the tip distance.
PvPollWhole ==
    /\ ~disable_virtual_chain_processing
    /\ pv_pc = "poll"
    /\ start_vcp
    /\ LET res == get_virtual_chain_from_block(start_hash, node_tip)
           n == Len(res.added_chain_block_hashes)
       IN /\ n > 0
          /\ added_blocks_count' = n
          /\ res_removed' = res.removed_chain_block_hashes
          /\ res_added' = res.accepted_transaction_ids
    /\ pv_pc' = "wait"
    /\ vcp_log' = << >>
    /\ UNCHANGED <<envVars, cfgVars, sigVars, mainVars, peerVars, auxVars, db_vcp_checkpoint, dynamic_tip_distance, quiet_batches, synced,
                   tip_distance_history,
                   rows_removed, importVars, pbVars, ptVars, start_hash, tip_distance, cpVars,
                   checkpoint_queue, blockTables, txTables,
                   db_transactions_acceptances, db_block_checkpoint,
                   passVars, restarts, pb_dequeued, pt_dequeued, cp_consumed>>

\* One poll of the node, once start_vcp is set.
PvPollUngated ==
    /\ ~disable_virtual_chain_processing
    /\ pv_pc = "poll"
    /\ LET res == get_virtual_chain_from_block(start_hash, node_tip)
           n == Len(res.added_chain_block_hashes)
       IN /\ n > tip_distance
          /\ added_blocks_count' = n
          /\ res_removed' = res.removed_chain_block_hashes
          /\ res_added' = SubSeq(res.accepted_transaction_ids, 1, n - tip_distance)
    /\ pv_pc' = "wait"
    /\ vcp_log' = << >>
    /\ UNCHANGED <<envVars, cfgVars, sigVars, mainVars, peerVars, auxVars, db_vcp_checkpoint, dynamic_tip_distance, quiet_batches, synced, tip_distance_history,
                   rows_removed, importVars, pbVars, ptVars, start_hash, tip_distance, cpVars,
                   checkpoint_queue, blockTables, txTables,
                   db_transactions_acceptances, db_block_checkpoint,
                   passVars, restarts, pb_dequeued, pt_dequeued, cp_consumed>>

PvPoll ==
    /\ ~disable_virtual_chain_processing
    /\ pv_pc = "poll"
    /\ start_vcp
    /\ LET res == get_virtual_chain_from_block(start_hash, node_tip)
           n == Len(res.added_chain_block_hashes)
       IN /\ n > tip_distance
          /\ added_blocks_count' = n
          /\ res_removed' = res.removed_chain_block_hashes
          /\ res_added' = SubSeq(res.accepted_transaction_ids, 1, n - tip_distance)
    /\ pv_pc' = "wait"
    /\ vcp_log' = << >>
    /\ UNCHANGED <<envVars, cfgVars, sigVars, mainVars, peerVars, auxVars, db_vcp_checkpoint, dynamic_tip_distance, quiet_batches, synced, tip_distance_history,
                   rows_removed, importVars, pbVars, ptVars, start_hash, tip_distance, cpVars,
                   checkpoint_queue, blockTables, txTables,
                   db_transactions_acceptances, db_block_checkpoint,
                   passVars, restarts, pb_dequeued, pt_dequeued, cp_consumed>>

\* A poll whose response does not reach beyond the tip distance.
PvPollNothing ==
    /\ ~disable_virtual_chain_processing
    /\ pv_pc = "poll"
    /\ start_vcp
    /\ LET res == get_virtual_chain_from_block(start_hash, node_tip)
           n == Len(res.added_chain_block_hashes)
       IN /\ n <= tip_distance
          /\ synced' = (synced \/ n < SYNCED_BELOW)
    /\ UNCHANGED <<envVars, cfgVars, sigVars, mainVars, peerVars, auxVars, db_vcp_checkpoint, dynamic_tip_distance, quiet_batches, tip_distance_history,
                   added_blocks_count, rows_removed, importVars, pbVars, ptVars, pvVars,
                   cpVars, checkpoint_queue, blockTables, txTables,
                   db_transactions_acceptances, db_block_checkpoint, obsVars, passVars>>

checkpoint_block == Last(res_added).accepting_block_hash

\* Leaving the wait loop.
PvInterlock ==
    /\ pv_pc = "wait"
    /\ InterlockOpen(checkpoint_block, last_block)
    /\ pv_pc' = "remove"
    /\ UNCHANGED <<envVars, cfgVars, sigVars, mainVars, peerVars, auxVars, db_vcp_checkpoint, tdVars, importVars, pbVars, ptVars, start_hash, tip_distance,
                   res_removed, res_added, cpVars, checkpoint_queue, blockTables,
                   txTables, db_transactions_acceptances, db_block_checkpoint, obsVars, passVars>>

PvRemove ==
    /\ pv_pc = "remove"
    /\ db_transactions_acceptances' =
          remove_chain_blocks(db_transactions_acceptances, res_removed)
    /\ rows_removed' = Cardinality(db_transactions_acceptances)
                           - Cardinality(db_transactions_acceptances')
    /\ vcp_log' = Append(vcp_log, "remove")
    /\ pv_pc' = "accept"
    /\ UNCHANGED <<envVars, cfgVars, sigVars, mainVars, peerVars, auxVars, db_vcp_checkpoint, dynamic_tip_distance, quiet_batches, synced, tip_distance_history,
                   added_blocks_count, importVars, pbVars, ptVars, start_hash, tip_distance,
                   res_removed, res_added, cpVars, checkpoint_queue, blockTables,
                   txTables, db_block_checkpoint,
                   passVars, restarts, pb_dequeued, pt_dequeued, cp_consumed>>

PvAccept ==
    /\ pv_pc = "accept"
    /\ ~disable_transaction_acceptance
    /\ db_transactions_acceptances' =
          accept_transactions(db_transactions_acceptances, res_added)
    /\ LET after == TipDistanceAfter(tip_distance, tip_distance_history, synced,
                                      rows_removed)
       IN IF dynamic_tip_distance
          THEN /\ tip_distance' = after.tip_distance
               /\ tip_distance_history' = after.tip_distance_history
          ELSE UNCHANGED <<tip_distance, tip_distance_history>>
    /\ quiet_batches' = QuietAfter(quiet_batches, tip_distance' > tip_distance, rows_removed)
    /\ vcp_log' = Append(vcp_log, "accept")
    /\ pv_pc' = "push"
    /\ UNCHANGED <<envVars, cfgVars, sigVars, mainVars, peerVars, auxVars, db_vcp_checkpoint, dynamic_tip_distance, synced, added_blocks_count,
                   rows_removed,
                   importVars, pbVars, ptVars, start_hash,
                   res_removed, res_added, cpVars, checkpoint_queue, blockTables,
                   txTables, db_block_checkpoint,
                   passVars, restarts, pb_dequeued, pt_dequeued, cp_consumed>>

\* The push, followed by a write of the vcp_checkpoint row.
PvPushSaving ==
    /\ pv_pc = "push"
    /\ Len(checkpoint_queue) < CpQueueCap
    /\ checkpoint_queue' = Append(checkpoint_queue, CheckpointBlock("Vcp", checkpoint_block))
    /\ start_hash' = checkpoint_block
    /\ pv_pc' = "poll"
    /\ db_vcp_checkpoint' = checkpoint_block
    /\ res_removed' = << >>
    /\ res_added' = << >>
    /\ synced' = (synced \/ added_blocks_count < SYNCED_BELOW)
    /\ added_blocks_count' = 0
    /\ UNCHANGED <<envVars, cfgVars, sigVars, mainVars, peerVars, auxVars, dynamic_tip_distance, quiet_batches, tip_distance_history, rows_removed,
                   importVars, pbVars, ptVars, tip_distance, cpVars, blockTables,
                   txTables, db_transactions_acceptances, db_block_checkpoint, obsVars, passVars>>

PvPush ==
    /\ pv_pc = "push"
    /\ Len(checkpoint_queue) < CpQueueCap
    /\ checkpoint_queue' = Append(checkpoint_queue, CheckpointBlock("Vcp", checkpoint_block))
    /\ start_hash' = checkpoint_block
    /\ pv_pc' = "poll"
    /\ res_removed' = << >>
    /\ res_added' = << >>
    /\ synced' = (synced \/ added_blocks_count < SYNCED_BELOW)
    /\ added_blocks_count' = 0
    /\ UNCHANGED <<envVars, cfgVars, sigVars, mainVars, peerVars, auxVars, db_vcp_checkpoint, dynamic_tip_distance, quiet_batches, tip_distance_history, rows_removed,
                   importVars, pbVars, ptVars, tip_distance, cpVars, blockTables,
                   txTables, db_transactions_acceptances, db_block_checkpoint, obsVars, passVars>>

\* ------------------------------------------------------- process_checkpoints
\* The failed-timeout test of a pending candidate c.
FailedTimeoutBlocksOnly(c, lb, lt) ==
    lb > blue_score(c) + CHECKPOINT_FAILED_TIMEOUT * net_bps
FailedTimeoutNever(c, lb, lt) == FALSE
FailedTimeout(c, lb, lt) ==
    /\ lb > blue_score(c) + CHECKPOINT_FAILED_TIMEOUT * net_bps
    /\ \/ disable_transaction_processing
       \/ lt > blue_score(c) + CHECKPOINT_FAILED_TIMEOUT * net_bps

\* Option<CheckpointBlock>: the empty sequence is None, <<cb>> is Some(cb).
None == << >>
Some(cb) == <<cb>>

\* Whether the popped candidate becomes the pending checkpoint_candidate.
SelectsAnyTime(cb, interval_elapsed) ==
    /\ checkpoint_candidate = None
    /\ \/ cb.origin = "Vcp"
       \/ cb.origin = "Blocks" /\ disable_virtual_chain_processing
Selects(cb, interval_elapsed) ==
    /\ checkpoint_candidate = None
    /\ interval_elapsed
    /\ \/ cb.origin = "Vcp"
       \/ cb.origin = "Blocks" /\ disable_virtual_chain_processing

\* The candidate's block data is confirmed: the flag is already set, or the
\* hash is among those Block Processor reported since the last clearing.
CpOkBlocksAlways(ok, cand, processed) == TRUE
CpOkBlocksFlagOnly(ok, cand, processed) == ok
CpOkBlocks(ok, cand, processed) == ok \/ cand \in processed

CpOkTxsAlways(ok, cand, processed) == TRUE
CpOkTxs(ok, cand, processed) ==
    ok \/ disable_transaction_processing \/ cand \in processed

\* save_checkpoint: upsert of the block_checkpoint var
save_checkpoint(old, hash) == hash

\* One iteration of the coordinator loop on a popped candidate.  saved_over and
\* warned_over are the two clock readings: more than CHECKPOINT_SAVE_INTERVAL
\* seconds since checkpoint_last_saved, more than CHECKPOINT_WARN_INTERVAL since
\* checkpoint_last_warned.  With save_fails the iteration is one whose
\* save_checkpoint returns an error: unwrap() panics and the task is gone.
CpLoopBody(save_fails, saved_over, warned_over) ==
    /\ ~cp_failed
    /\ checkpoint_queue # << >>
    /\ LET cb == Head(checkpoint_queue)
           sel == Selects(cb, saved_over)
           lb == IF cb.origin = "Blocks" THEN blue_score(cb.hash) ELSE last_block_blue_score
           lt == IF cb.origin = "Transactions" THEN blue_score(cb.hash) ELSE last_tx_blue_score
           bp == IF cb.origin = "Blocks" /\ ~disable_virtual_chain_processing
                 THEN blocks_processed \cup {cb.hash} ELSE blocks_processed
           tp == IF cb.origin = "Transactions"
                 THEN txs_processed \cup {cb.hash} ELSE txs_processed
           sb == IF cb.origin = "Blocks" THEN seen_blocks \cup {cb.hash} ELSE seen_blocks
           st == IF cb.origin = "Transactions" THEN seen_txs \cup {cb.hash} ELSE seen_txs
           cand == IF sel THEN Some(cb) ELSE checkpoint_candidate
           okb0 == IF sel THEN cb.origin = "Blocks" ELSE cp_ok_blocks
           okt0 == IF sel THEN FALSE ELSE cp_ok_txs
           okb == cand # None /\ CpOkBlocks(okb0, cand[1].hash, bp)
           okt == cand # None /\ CpOkTxs(okt0, cand[1].hash, tp)
           warned == IF sel THEN 0 ELSE since_last_warned
       IN /\ checkpoint_queue' = Tail(checkpoint_queue)
          /\ intervals_elapsed' = IF sel THEN intervals_elapsed + 1 ELSE intervals_elapsed
          /\ last_block_blue_score' = lb
          /\ last_tx_blue_score' = lt
          /\ cp_consumed' = IF cb.origin = "Vcp" THEN cp_consumed
                             ELSE cp_consumed \cup {<<cb.origin, cb.hash>>}
          /\ IF cand = None
             THEN /\ ~save_fails
                  /\ blocks_processed' = bp
                  /\ txs_processed' = tp
                  /\ seen_blocks' = sb
                  /\ seen_txs' = st
                  /\ UNCHANGED <<checkpoint_candidate, cp_ok_blocks, cp_ok_txs,
                                 metrics_checkpoint_origin, db_block_checkpoint,
                                 cp_failed, since_last_saved, since_last_warned>>
             ELSE /\ blocks_processed' = {}
                  /\ txs_processed' = {}
                  /\ cp_ok_blocks' = okb
                  /\ cp_ok_txs' = okt
                  /\ IF okb /\ okt
                     THEN IF save_fails
                          THEN /\ cp_failed' = TRUE
                               /\ checkpoint_candidate' = cand
                               /\ since_last_warned' = warned
                               /\ seen_blocks' = sb
                               /\ seen_txs' = st
                               /\ UNCHANGED <<db_block_checkpoint, since_last_saved,
                                              metrics_checkpoint_origin>>
                          ELSE /\ db_block_checkpoint' =
                                     save_checkpoint(db_block_checkpoint, cand[1].hash)
                               /\ metrics_checkpoint_origin' = cand[1].origin
                               /\ checkpoint_candidate' = None
                               /\ cp_failed' = FALSE
                               /\ since_last_saved' = 0
                               /\ since_last_warned' = warned
                               /\ seen_blocks' = {}
                               /\ seen_txs' = {}
                     ELSE /\ ~save_fails
                          /\ seen_blocks' = sb
                          /\ seen_txs' = st
                          /\ IF ~sel /\ warned_over
                             THEN /\ checkpoint_candidate' = cand
                                  /\ since_last_warned' = 0
                                  /\ UNCHANGED since_last_saved
                             ELSE IF FailedTimeout(cand[1].hash, lb, lt)
                             THEN /\ checkpoint_candidate' = None
                                  /\ since_last_saved' = 0
                                  /\ since_last_warned' = warned
                             ELSE /\ checkpoint_candidate' = cand
                                  /\ since_last_warned' = warned
                                  /\ UNCHANGED since_last_saved
                          /\ UNCHANGED <<db_block_checkpoint, metrics_checkpoint_origin,
                                         cp_failed>>
    /\ UNCHANGED <<envVars, cfgVars, sigVars, mainVars, peerVars, auxVars, db_vcp_checkpoint, tdVars, importVars, pbVars, ptVars, pvVars, blockTables, txTables,
                   db_transactions_acceptances, restarts, pb_dequeued, pt_dequeued,
                   vcp_log, passVars>>

\* The iteration with the passing of time left open: whether either interval
\* has elapsed is a free choice, and at most MaxSelections save intervals
\* elapse.
CpIteration(save_fails) ==
    \E interval_elapsed \in {FALSE} \cup {intervals_elapsed < MaxSelections} :
        \E warn_elapsed \in (IF checkpoint_candidate = None THEN {FALSE} ELSE BOOLEAN) :
            CpLoopBody(save_fails, interval_elapsed, warn_elapsed)

CpProcess == CpIteration(FALSE)

\* ------------------------------------------------------------ specification
\* The configurations explored: the flags, the two batch sizes (800 and 5000
\* times batch_scale), and how much of the DAG the node reveals.
Config(vcp_off, tx_off, bs, tbs, len) ==
    [disable_virtual_chain_processing |-> vcp_off,
     disable_transaction_processing |-> tx_off,
     batch_size |-> bs, tx_batch_size |-> tbs, dag_end |-> len,
     dynamic_vcp_tip_distance |-> FALSE]
Configs ==
    { Config(FALSE, TRUE, BatchSize, TxBatchSize, NumBlocks),
      Config(FALSE, FALSE, 1, 1, NumBlocks),
      Config(TRUE, FALSE, BatchSize, TxBatchSize, ShortLen),
      Config(TRUE, TRUE, BatchSize, TxBatchSize, ShortLen) }

\* prune_db is not given: the pruner task returns at once.
PrunerOff ==
    /\ pruning_config = << >> /\ pr_pc = [at |-> "disabled", step |-> 0]
    /\ common_start_time = 0 /\ step_errors = 0
    /\ pr_results = {} /\ completed_successfully = << >>
    /\ pr_tx = << >> /\ store_before = NULL

\* No filter configuration file is given.
FilterOff == filter_config = NULL /\ validated = "none"

\* The block cache of the web server is not looked at.
CacheOff ==
    /\ cache_map = << >> /\ cache_order = << >> /\ capacity = 0
    /\ cache_held = << >> /\ cache_last = NULL /\ cache_ops = 0

InitSettings(c) ==
    /\ disable_virtual_chain_processing = c.disable_virtual_chain_processing
    /\ disable_transaction_processing = c.disable_transaction_processing
    /\ batch_size = c.batch_size
    /\ tx_batch_size = c.tx_batch_size
    /\ dag_end = c.dag_end
    /\ dynamic_tip_distance = c.dynamic_vcp_tip_distance

InitConfig(c) == InitSettings(c) /\ PrunerOff /\ FilterOff /\ CacheOff

\* The state of the freshly started tasks: empty queues and buffers.
InitTasks ==
    /\ rpc_blocks_queue = << >>
    /\ txs_queue = << >>
    /\ pb_pc = "pop" /\ pb_checkpoint_blocks = << >> /\ pb_synced = FALSE
    /\ pb_push = << >> /\ first_block = TRUE /\ vcp_started = FALSE
    /\ noop_delete_count = 0 /\ start_vcp = FALSE /\ last_block = NULL
    /\ pt_pc = "pop" /\ pt_checkpoint_blocks = << >> /\ pt_push = << >>
    /\ transactions = << >> /\ block_tx = << >> /\ tx_id_cache = {}
    /\ pv_pc = "poll" /\ synced = FALSE
    /\ tip_distance = (IF dynamic_tip_distance THEN INITIAL_TIP_DISTANCE ELSE 0)
    /\ tip_distance_history = << >>
    /\ res_removed = << >> /\ res_added = << >>
    /\ added_blocks_count = 0 /\ rows_removed = 0 /\ quiet_batches = NotGrown
    /\ checkpoint_queue = << >> /\ checkpoint_candidate = None
    /\ cp_ok_blocks = FALSE /\ cp_ok_txs = FALSE
    /\ metrics_checkpoint_origin = "None" /\ intervals_elapsed = 0
    /\ cp_failed = FALSE
    /\ blocks_processed = {} /\ txs_processed = {}
    /\ last_block_blue_score = 0 /\ last_tx_blue_score = 0
    /\ since_last_saved = 0 /\ since_last_warned = 0
    /\ seen_blocks = {} /\ seen_txs = {}
    /\ pb_dequeued = {} /\ pt_dequeued = {}
    /\ cp_consumed = {} /\ vcp_log = << >>
    /\ pb_second_pass = FALSE /\ pt_second_pass = FALSE
    /\ shutdown_sent = FALSE /\ stopped = {}
    /\ imp_pc = "start" /\ peer_channel = << >>
    /\ utxo_chunk = NULL /\ to_send = << >> /\ completed = FALSE
    /\ next_requests = 0 /\ failed_attempts = 0

\* An empty store, and the node's first block as the start block.
InitStore ==
    /\ node_tip = InitialTip
    /\ fetch_pos = 1
    /\ start_hash = 1
    /\ db_blocks = {} /\ db_block_parent = {}
    /\ db_transactions = {} /\ db_transactions_inputs = {}
    /\ db_transactions_outputs = {} /\ db_blocks_transactions = {}
    /\ db_addresses_transactions = {} /\ db_transactions_acceptances = {}
    /\ db_block_checkpoint = NULL
    /\ db_vcp_checkpoint = NULL
    /\ restarts = 0

\* The tasks are running; the empty store was not imported into, the initial
\* import being disabled.
NoImport ==
    /\ force_utxo_import = FALSE /\ ignore_checkpoint = FALSE
    /\ disable_initial_utxo_import = TRUE
    /\ peer_address = TRUE
    /\ main_pc = "running"
    /\ utxo_set_import = FALSE /\ utxo_chunk_count = 0

Init ==
    /\ \E c \in Configs : InitConfig(c)
    /\ NoImport
    /\ InitTasks
    /\ InitStore

Next ==
    \/ NodeGrow
    \/ FetchBlock
    \/ PbPop \/ PbInsertBlocks \/ PbInsertBlockParents \/ PbPurge \/ PbPublish \/ PbPush
    \/ PtPop \/ PtInsert \/ PtInsertBlockTxs \/ PtInsertInputTxAddr \/ PtPush
    \/ PvPoll \/ PvPollNothing \/ PvInterlock \/ PvRemove \/ PvAccept \/ PvPush
    \/ CpProcess

Spec == Init /\ [][Next]_vars

\* ------------------------------------------------------- failed store writes
\* Every store call is unwrapped with a panic: the task that awaits it is gone.
\* The process exits once main sees the task's join error; until then the
\* other tasks run on.
NoFailure ==
    /\ pb_pc # "failed" /\ pt_pc # "failed" /\ pv_pc # "failed" /\ ~cp_failed

\* A failed write swallowed instead: the flush goes on without the rows.
PbFailSkipped ==
    /\ NoFailure
    /\ pb_pc \in {"insert_blocks", "insert_block_parents"}
    /\ pb_pc' = IF pb_pc = "insert_blocks" THEN "insert_block_parents" ELSE "purge"
    /\ UNCHANGED <<envVars, cfgVars, sigVars, mainVars, peerVars, auxVars, db_vcp_checkpoint, tdVars, importVars, pb_checkpoint_blocks, pb_synced, pb_push,
                   first_block, vcp_started, noop_delete_count, start_vcp, last_block,
                   ptVars, pvVars, cpVars, checkpoint_queue, blockTables, txTables,
                   db_transactions_acceptances, db_block_checkpoint, obsVars, passVars>>

\* insert_blocks, insert_block_parents or the purge's delete returns an error.
PbFail ==
    /\ NoFailure
    /\ \/ pb_pc \in {"insert_blocks", "insert_block_parents"}
       \/ pb_pc = "purge" /\ ~vcp_started /\ ~disable_virtual_chain_processing
    /\ pb_pc' = "failed"
    /\ UNCHANGED <<envVars, cfgVars, sigVars, mainVars, peerVars, auxVars, db_vcp_checkpoint, tdVars, importVars, pb_checkpoint_blocks, pb_synced, pb_push,
                   first_block, vcp_started, noop_delete_count, start_vcp, last_block,
                   ptVars, pvVars, cpVars, checkpoint_queue, blockTables, txTables,
                   db_transactions_acceptances, db_block_checkpoint, obsVars, passVars>>

\* One of the four concurrent inserts returns an error; those in done were
\* written before the task was gone.
PtInsertFail ==
    /\ NoFailure
    /\ pt_pc = "insert"
    /\ \E done \in SUBSET {"txs", "addr", "inputs", "outputs"} :
        /\ done # {"txs", "addr", "inputs", "outputs"}
        /\ LET tx_outputs == BufferedOutputs(transactions)
               raw == BufferedInputs(transactions)
               tx_inputs == IF enable_transactions_inputs_resolve
                            THEN [k \in DOMAIN raw |-> PreResolve(tx_outputs, raw[k])]
                            ELSE raw
           IN /\ db_transactions' =
                    IF "txs" \in done
                    THEN insert_transactions(db_transactions, transactions)
                    ELSE db_transactions
              /\ db_addresses_transactions' =
                    IF "addr" \in done
                    THEN insert_address_transactions(db_addresses_transactions,
                             Flatten([k \in DOMAIN transactions |->
                                         map_transaction_outputs_address(transactions[k])]))
                    ELSE db_addresses_transactions
              /\ db_transactions_inputs' =
                    IF "inputs" \in done
                    THEN insert_transaction_inputs(enable_transactions_inputs_resolve,
                             db_transactions_inputs, db_transactions_outputs, tx_inputs)
                    ELSE db_transactions_inputs
              /\ db_transactions_outputs' =
                    IF "outputs" \in done
                    THEN insert_transaction_outputs(db_transactions_outputs, tx_outputs)
                    ELSE db_transactions_outputs
    /\ pt_pc' = "failed"
    /\ UNCHANGED <<envVars, cfgVars, sigVars, mainVars, peerVars, auxVars, db_vcp_checkpoint, tdVars, importVars, pbVars, pt_checkpoint_blocks, pt_push,
                   transactions, block_tx, tx_id_cache, pvVars, cpVars,
                   checkpoint_queue, blockTables, db_blocks_transactions,
                   db_transactions_acceptances, db_block_checkpoint, obsVars, passVars>>

\* insert_block_txs or insert_input_tx_addr returns an error.
PtPostFail ==
    /\ NoFailure
    /\ pt_pc \in {"post", "post_block_txs", "post_input_addr"}
    /\ pt_pc' = "failed"
    /\ UNCHANGED <<envVars, cfgVars, sigVars, mainVars, peerVars, auxVars, db_vcp_checkpoint, tdVars, importVars, pbVars, pt_checkpoint_blocks, pt_push,
                   transactions, block_tx, tx_id_cache, pvVars, cpVars,
                   checkpoint_queue, blockTables, txTables,
                   db_transactions_acceptances, db_block_checkpoint, obsVars, passVars>>

\* remove_chain_blocks or accept_transactions returns an error.
PvFail ==
    /\ NoFailure
    /\ pv_pc \in {"remove", "accept"}
    /\ pv_pc' = "failed"
    /\ UNCHANGED <<envVars, cfgVars, sigVars, mainVars, peerVars, auxVars, db_vcp_checkpoint, tdVars, importVars, pbVars, ptVars, start_hash, tip_distance,
                   res_removed, res_added, cpVars, checkpoint_queue, blockTables,
                   txTables, db_transactions_acceptances, db_block_checkpoint, obsVars,
                   passVars>>

\* save_checkpoint returns an error.
CpSaveFail == NoFailure /\ CpIteration(TRUE)

FailConfigs ==
    { Config(FALSE, TRUE, BatchSize, TxBatchSize, NumBlocks),
      Config(TRUE, FALSE, BatchSize, TxBatchSize, ShortLen) }

InitFail ==
    /\ \E c \in FailConfigs : InitConfig(c)
    /\ NoImport
    /\ InitTasks
    /\ InitStore

NextFail == Next \/ PbFail \/ PtInsertFail \/ PtPostFail \/ PvFail \/ CpSaveFail

SpecFail == InitFail /\ [][NextFail]_vars

\* ------------------------------------------------- the coordinator on its own
\* The coordinator against what the three processors can put on the
\* checkpoint queue, with its two clocks followed: Block Processor and
\* Transaction Processor report every block in order, the Virtual Chain
\* Processor offers chain blocks in increasing order, no further ahead of the
\* block reports than its wait loop allows.
TxsReported == Cardinality(pt_dequeued)

FeedBlocks ==
    /\ Len(checkpoint_queue) < CpQueueCap
    /\ last_block < dag_end
    /\ disable_transaction_processing \/ last_block + 1 <= TxsReported + FeedLag
    /\ last_block' = last_block + 1
    /\ checkpoint_queue' = Append(checkpoint_queue, CheckpointBlock("Blocks", last_block + 1))
    /\ UNCHANGED <<envVars, cfgVars, sigVars, mainVars, peerVars, auxVars, db_vcp_checkpoint, tdVars, importVars, pb_pc, pb_checkpoint_blocks, pb_synced,
                   pb_push, first_block, vcp_started, noop_delete_count, start_vcp,
                   ptVars, pvVars, cpVars, blockTables, txTables,
                   db_transactions_acceptances, db_block_checkpoint, obsVars, passVars>>

FeedTxs ==
    /\ ~disable_transaction_processing
    /\ Len(checkpoint_queue) < CpQueueCap
    /\ TxsReported < dag_end
    /\ TxsReported + 1 <= last_block + FeedLag
    /\ pt_dequeued' = pt_dequeued \cup {TxsReported + 1}
    /\ checkpoint_queue' =
          Append(checkpoint_queue, CheckpointBlock("Transactions", TxsReported + 1))
    /\ UNCHANGED <<envVars, cfgVars, sigVars, mainVars, peerVars, auxVars, db_vcp_checkpoint, tdVars, importVars, pbVars, ptVars, pvVars, cpVars, blockTables,
                   txTables, db_transactions_acceptances, db_block_checkpoint,
                   restarts, pb_dequeued, cp_consumed, vcp_log, passVars>>

FeedVcp ==
    /\ ~disable_virtual_chain_processing
    /\ Len(checkpoint_queue) < CpQueueCap
    /\ \E h \in (start_hash + 1)..dag_end :
          /\ InterlockOpen(h, last_block)
          /\ h + VcpLag >= last_block
          /\ start_hash' = h
          /\ checkpoint_queue' = Append(checkpoint_queue, CheckpointBlock("Vcp", h))
    /\ UNCHANGED <<envVars, cfgVars, sigVars, mainVars, peerVars, auxVars, db_vcp_checkpoint, tdVars, importVars, pbVars, ptVars, pv_pc, tip_distance,
                   res_removed, res_added, cpVars, blockTables, txTables,
                   db_transactions_acceptances, db_block_checkpoint, obsVars, passVars>>

\* Time passes for the coordinator.  Only the clock that is read before it is
\* next reset is followed: checkpoint_last_saved while no candidate is pending,
\* checkpoint_last_warned while one is.
CpTick ==
    /\ IF checkpoint_candidate = None
       THEN /\ since_last_saved < ClockMax
            /\ since_last_saved' = SeqMin(since_last_saved + ClockStep, ClockMax)
            /\ UNCHANGED since_last_warned
       ELSE /\ since_last_warned < ClockMax
            /\ since_last_warned' = SeqMin(since_last_warned + ClockStep, ClockMax)
            /\ UNCHANGED since_last_saved
    /\ UNCHANGED <<envVars, cfgVars, sigVars, mainVars, peerVars, auxVars, db_vcp_checkpoint, tdVars, importVars, pbVars, ptVars, pvVars,
                   checkpoint_candidate, cp_ok_blocks, cp_ok_txs,
                   metrics_checkpoint_origin, intervals_elapsed, cp_failed,
                   blocks_processed, txs_processed, last_block_blue_score,
                   last_tx_blue_score, seen_blocks, seen_txs, checkpoint_queue,
                   blockTables, txTables, db_transactions_acceptances,
                   db_block_checkpoint, obsVars, passVars>>

\* The iteration with the two clocks read.
CpTimed ==
    CpLoopBody(FALSE, since_last_saved > CHECKPOINT_SAVE_INTERVAL,
               since_last_warned > CHECKPOINT_WARN_INTERVAL)

CoordConfigs ==
    { Config(FALSE, FALSE, 1, 1, CoordLen),
      Config(FALSE, TRUE, 1, 1, CoordLen),
      Config(TRUE, FALSE, 1, 1, ShortLen) }

InitCoord ==
    /\ \E c \in CoordConfigs : InitConfig(c)
    /\ NoImport
    /\ InitTasks
    /\ InitStore

NextCoord == FeedBlocks \/ FeedTxs \/ FeedVcp \/ CpTick \/ CpTimed

SpecCoord == InitCoord /\ [][NextCoord]_vars

\* ------------------------------------------------------------- an idle queue
\* The same pipeline, with the time the Block Processor spends asleep on an
\* empty queue made visible.
IdleConfigs ==
    Configs \cup { Config(TRUE, TRUE, IdleBatchSize, TxBatchSize, ShortLen) }

InitIdle ==
    /\ \E c \in IdleConfigs : InitConfig(c)
    /\ NoImport
    /\ InitTasks
    /\ InitStore

NextIdle == Next \/ PbSleep

SpecIdle == InitIdle /\ [][NextIdle]_vars

\* ----------------------------------------------------- the node's RPC fails
\* The pool hands out no connection, or get_virtual_chain_from_block returns
\* an error: the error is logged and the loop sleeps err_delay.
PvRpcError ==
    /\ ~disable_virtual_chain_processing
    /\ pv_pc = "poll"
    /\ start_vcp
    /\ pv_pc' = "err_delay"
    /\ UNCHANGED <<envVars, cfgVars, sigVars, mainVars, peerVars, auxVars, db_vcp_checkpoint, tdVars, importVars, pbVars, ptVars, start_hash,
                   tip_distance, res_removed, res_added, cpVars, checkpoint_queue,
                   blockTables, txTables, db_transactions_acceptances,
                   db_block_checkpoint, obsVars, passVars>>

\* The sleep is over: the next iteration polls again.
PvRetry ==
    /\ pv_pc = "err_delay"
    /\ pv_pc' = "poll"
    /\ UNCHANGED <<envVars, cfgVars, sigVars, mainVars, peerVars, auxVars, db_vcp_checkpoint, tdVars, importVars, pbVars, ptVars, start_hash,
                   tip_distance, res_removed, res_added, cpVars, checkpoint_queue,
                   blockTables, txTables, db_transactions_acceptances,
                   db_block_checkpoint, obsVars, passVars>>

\* get_block for the last accepting block returns an error: the unwrap panics.
PvGetBlockError ==
    /\ ~disable_virtual_chain_processing
    /\ pv_pc = "poll"
    /\ start_vcp
    /\ Len(get_virtual_chain_from_block(start_hash, node_tip).added_chain_block_hashes)
          > tip_distance
    /\ pv_pc' = "failed"
    /\ UNCHANGED <<envVars, cfgVars, sigVars, mainVars, peerVars, auxVars, db_vcp_checkpoint, tdVars, importVars, pbVars, ptVars, start_hash,
                   tip_distance, res_removed, res_added, cpVars, checkpoint_queue,
                   blockTables, txTables, db_transactions_acceptances,
                   db_block_checkpoint, obsVars, passVars>>

\* The pipeline with the dynamic tip distance enabled, against a node whose
\* RPC may fail.
DynConfigs ==
    { [Config(FALSE, FALSE, 1, 1, NumBlocks) EXCEPT !.dynamic_vcp_tip_distance = TRUE] }

InitDyn ==
    /\ \E c \in DynConfigs : InitConfig(c)
    /\ NoImport
    /\ InitTasks
    /\ InitStore

NextDyn == Next \/ PvRpcError \/ PvRetry \/ PvGetBlockError

SpecDyn == InitDyn /\ [][NextDyn]_vars

\* ------------------------------------------------ the tip distance on its own
\* The tip distance over any sequence of batches: one whole iteration that
\* applies a batch, whatever the node answered and however many rows
\* remove_chain_blocks deleted.  A response is short, or as long as SYNCED_BELOW.
PvBatch ==
    /\ tip_distance < MaxTipDistance
    /\ \E n \in {tip_distance + 1, SYNCED_BELOW}, removed \in 0..1 :
          /\ n > tip_distance
          /\ LET after == TipDistanceAfter(tip_distance, tip_distance_history, synced,
                                           removed)
             IN IF dynamic_tip_distance
                THEN /\ tip_distance' = after.tip_distance
                     /\ tip_distance_history' = after.tip_distance_history
                ELSE UNCHANGED <<tip_distance, tip_distance_history>>
          /\ rows_removed' = removed
          /\ quiet_batches' = QuietAfter(quiet_batches, tip_distance' > tip_distance, removed)
          /\ synced' = (synced \/ n < SYNCED_BELOW)
    /\ UNCHANGED <<envVars, cfgVars, sigVars, mainVars, peerVars, auxVars, db_vcp_checkpoint, dynamic_tip_distance, added_blocks_count, importVars,
                   pbVars, ptVars, pv_pc, start_hash, res_removed, res_added, cpVars,
                   checkpoint_queue, blockTables, txTables, db_transactions_acceptances,
                   db_block_checkpoint, obsVars, passVars>>

\* One whole iteration whose response does not reach beyond the tip distance.
PvBatchNothing ==
    /\ \E n \in 0..tip_distance : synced' = (synced \/ n < SYNCED_BELOW)
    /\ UNCHANGED <<envVars, cfgVars, sigVars, mainVars, peerVars, auxVars, db_vcp_checkpoint, dynamic_tip_distance, tip_distance_history,
                   added_blocks_count, rows_removed, quiet_batches, importVars, pbVars,
                   ptVars, pvVars, cpVars, checkpoint_queue, blockTables, txTables,
                   db_transactions_acceptances, db_block_checkpoint, obsVars, passVars>>

TipConfigs ==
    { Config(FALSE, TRUE, 1, 1, ShortLen),
      [Config(FALSE, TRUE, 1, 1, ShortLen) EXCEPT !.dynamic_vcp_tip_distance = TRUE] }

InitTip ==
    /\ \E c \in TipConfigs : InitConfig(c)
    /\ NoImport
    /\ InitTasks
    /\ InitStore

NextTip == PvBatch \/ PvBatchNothing

SpecTip == InitTip /\ [][NextTip]_vars

\* ------------------------------------------------------------- UTXO import
\* UPDATE ... SET outputs[idx+1]: the row at an index is replaced
UpsertOutputs(table, rows) ==
    {o \in table : ~ \E k \in DOMAIN rows : IndexKey(rows[k]) = IndexKey(o)}
        \cup {rows[k] : k \in DOMAIN rows}

\* upsert_utxos: a transactions row per id unless there is one, and the
\* outputs written over whatever is stored at their index.
upsert_utxos(txs, outputs, chunk) ==
    [transactions |->
        insert_transactions(txs, [k \in DOMAIN chunk |->
            [transaction_id |-> chunk[k].transaction_id, block_time |-> 0]]),
     outputs |->
        UpsertOutputs(outputs, [k \in DOMAIN chunk |->
            [transaction_id |-> chunk[k].transaction_id, index |-> chunk[k].index,
             amount |-> chunk[k].amount,
             script_public_key |-> 1000 + chunk[k].address,
             script_public_key_address |-> chunk[k].address]])]

\* the acceptance rows of a chunk: one per transaction id, block_hash null
unique_acceptances(chunk) ==
    LET first == SelectSeq2([k \in DOMAIN chunk |-> k],
                     {k \in DOMAIN chunk : ~ \E j \in 1..(k - 1) :
                          chunk[j].transaction_id = chunk[k].transaction_id})
    IN [n \in DOMAIN first |->
            [transaction_id |-> chunk[first[n]].transaction_id, block_hash |-> NULL]]

\* persist_utxos of the next chunk.
PersistUtxos ==
    /\ utxo_set_import
    /\ utxo_chunk_count < Len(SnapshotChunks)
    /\ LET chunk == SnapshotChunks[utxo_chunk_count + 1]
           up == upsert_utxos(db_transactions, db_transactions_outputs, chunk)
       IN /\ db_transactions_acceptances' =
                insert_transaction_acceptances(db_transactions_acceptances,
                                               unique_acceptances(chunk))
          /\ db_transactions' = up.transactions
          /\ db_transactions_outputs' = up.outputs
    /\ utxo_chunk_count' = utxo_chunk_count + 1
    /\ UNCHANGED <<cfgVars, sigVars, mainVars, peerVars, auxVars, db_vcp_checkpoint, tdVars, utxo_set_import, envVars, pbVars, ptVars, pvVars, cpVars,
                   checkpoint_queue, blockTables, db_transactions_inputs,
                   db_blocks_transactions, db_addresses_transactions,
                   db_block_checkpoint, obsVars, passVars>>

\* The peer connection fails or times out: the import starts over.
UtxoImportRetry ==
    /\ utxo_set_import
    /\ 0 < utxo_chunk_count /\ utxo_chunk_count < Len(SnapshotChunks)
    /\ utxo_chunk_count' = 0
    /\ UNCHANGED <<cfgVars, sigVars, mainVars, peerVars, auxVars, db_vcp_checkpoint, tdVars, utxo_set_import, envVars, pbVars, ptVars, pvVars, cpVars,
                   checkpoint_queue, blockTables, txTables,
                   db_transactions_acceptances, db_block_checkpoint, obsVars,
                   passVars>>

ImportConfigs == { Config(FALSE, FALSE, 1, 1, NumBlocks) }

InitImport ==
    /\ \E c \in ImportConfigs : InitConfig(c)
    /\ force_utxo_import = FALSE /\ ignore_checkpoint = FALSE
    /\ disable_initial_utxo_import = FALSE
    /\ peer_address = TRUE
    /\ main_pc = "running"
    /\ utxo_set_import = TRUE /\ utxo_chunk_count = 0
    /\ InitTasks
    /\ InitStore

NextImport == Next \/ PersistUtxos \/ UtxoImportRetry

SpecImport == InitImport /\ [][NextImport]_vars

\* ------------------------------------------------------------------ claims
Consumed(origin, h) == <<origin, h>> \in cp_consumed

SavedWasConfirmed ==
    db_block_checkpoint # NULL =>
        /\ Consumed("Blocks", db_block_checkpoint)
        /\ disable_transaction_processing \/ Consumed("Transactions", db_block_checkpoint)
        /\ disable_virtual_chain_processing \/ metrics_checkpoint_origin = "Vcp"

PendingUntilBlocksReported ==
    (/\ checkpoint_candidate # None
     /\ <<"Blocks", checkpoint_candidate[1].hash>> \notin cp_consumed'
     /\ ~disable_virtual_chain_processing)
        => /\ checkpoint_candidate' = checkpoint_candidate
           /\ db_block_checkpoint' = db_block_checkpoint

\* C1: a saved block_checkpoint X was consumed from the Checkpoint queue with
\* origin Blocks, with origin Transactions unless transaction processing is
\* disabled, and was selected from a consumed candidate of origin Vcp unless
\* virtual-chain processing is disabled;
\* a Vcp candidate selected before Block Processor reported it stays pending,
\* and nothing is saved, until its Blocks-origin candidate is consumed.
C1_SaveNeedsEveryStage == []SavedWasConfirmed /\ [][PendingUntilBlocksReported]_vars

\* A candidate waits for Block Processor's report, with every stage enabled.
C1_Witness ==
    /\ checkpoint_candidate # None
    /\ ~Consumed("Blocks", checkpoint_candidate[1].hash)
    /\ ~disable_transaction_processing
    /\ ~disable_virtual_chain_processing

SeenBelow(c) == {b \in pb_dequeued \cup pt_dequeued : blue_score(b) < blue_score(c)}

Covered(c) ==
    \A b \in SeenBelow(c) :
        /\ BlockRowsCommitted(b)
        /\ disable_transaction_processing \/ TxRowsCommitted(b)

Quiescent ==
    /\ fetch_pos = dag_end + 1
    /\ rpc_blocks_queue = << >> /\ txs_queue = << >>
    /\ pb_pc = "pop" /\ pb_checkpoint_blocks = << >>
    /\ disable_transaction_processing \/ (pt_pc = "pop" /\ pt_checkpoint_blocks = << >>)
    /\ disable_virtual_chain_processing \/ (pv_pc = "poll" /\ start_hash = dag_end)

\* The transactions of blocks 1..b as one buffer would hold them.
RECURSIVE OneBuffer(_)
OneBuffer(b) ==
    IF b = 0 THEN [transactions |-> << >>, tx_id_cache |-> {}]
    ELSE BufferTxs(BlockTxs(b), b, OneBuffer(b - 1).transactions,
                   OneBuffer(b - 1).tx_id_cache)

\* The store of a run over the whole prefix that flushes once.
RefTxs == IF disable_transaction_processing THEN << >> ELSE OneBuffer(dag_end).transactions
RefBlocks == 1..dag_end
RefBlockParent == {<<b, p>> \in (1..dag_end) \X (0..dag_end) : p \in Parents(b)}
RefTransactions == insert_transactions({}, RefTxs)
RefOutputs == insert_transaction_outputs({}, BufferedOutputs(RefTxs))
RefInputs ==
    insert_transaction_inputs(enable_transactions_inputs_resolve, {}, {},
        [k \in DOMAIN BufferedInputs(RefTxs) |->
            PreResolve(BufferedOutputs(RefTxs), BufferedInputs(RefTxs)[k])])
RefBlocksTransactions ==
    IF disable_transaction_processing THEN {}
    ELSE UNION {{<<b, t>> : t \in Range(BlockTxs(b))} : b \in 1..dag_end}
RefAcceptances ==
    IF disable_virtual_chain_processing THEN {}
    ELSE UNION {{[transaction_id |-> t, block_hash |-> h] : t \in AcceptedBy(h)} :
                    h \in Range(SelectedChain(dag_end))}

StoreIsReference ==
    /\ db_blocks = RefBlocks
    /\ db_block_parent = RefBlockParent
    /\ db_transactions = RefTransactions
    /\ db_transactions_inputs = RefInputs
    /\ db_transactions_outputs = RefOutputs
    /\ db_blocks_transactions = RefBlocksTransactions
    /\ db_transactions_acceptances = RefAcceptances

C3_WitnessUninterrupted == Quiescent /\ restarts = 0 /\ ~disable_virtual_chain_processing
C3_WitnessTxs == Quiescent /\ restarts = 1 /\ ~disable_transaction_processing

\* ------------------------------------------------------ idempotence (C4)
\* A step of a Block Processor flush whose blocks all had their rows stored
\* before the flush began, and the same for Transaction Processor.
SecondPassBP ==
    /\ pb_pc \in {"insert_blocks", "insert_block_parents", "purge"}
    /\ pb_pc' # pb_pc
    /\ pb_second_pass
SecondPassTP ==
    /\ pt_pc \in {"insert", "post", "post_block_txs", "post_input_addr"}
    /\ pt_pc' # pt_pc
    /\ pt_second_pass

\* The statement as claimed, transactions_acceptances included: a second pass
\* changes no table.  (addresses_transactions is left to the property below.)
C4_NoChangeInAnyTable ==
    [][/\ SecondPassBP => UNCHANGED <<blockTables, db_transactions_acceptances>>
       /\ SecondPassTP =>
            UNCHANGED <<db_transactions, db_transactions_inputs,
                        db_transactions_outputs, db_blocks_transactions>>]_vars

\* C4: a second pass of a flush through Block Processor leaves blocks and
\* block_parent as they are, and through Transaction Processor leaves
\* transactions, inputs, outputs and blocks_transactions as they are; what a
\* second pass through Block Processor does to transactions_acceptances is the
\* pre-VCP purge, which deletes the rows of the flush's blocks, the first
\* block after start excepted.
C4_SecondPassKeepsInsertedRows ==
    [][/\ SecondPassBP =>
            /\ UNCHANGED blockTables
            /\ db_transactions_acceptances' \in
                  {db_transactions_acceptances,
                   delete_transaction_acceptances(db_transactions_acceptances,
                       PurgeHashes(pb_checkpoint_blocks, first_block))}
       /\ SecondPassTP =>
            UNCHANGED <<db_transactions, db_transactions_inputs,
                        db_transactions_outputs, db_blocks_transactions>>]_vars

\* addresses_transactions under a second pass: with block_time in its key, a
\* transaction read again from a later block than the one it was stored from
\* adds a row.
AddressRowsUnchangedBySecondPass ==
    [][SecondPassTP => UNCHANGED db_addresses_transactions]_vars

\* A second pass through Block Processor is about to purge acceptance rows.
C4_Witness ==
    /\ pb_pc = "purge"
    /\ pb_second_pass
    /\ \E r \in db_transactions_acceptances :
          r.block_hash \in PurgeHashes(pb_checkpoint_blocks, first_block)

\* A second pass through Transaction Processor re-inserts a transaction that
\* is stored with another block_time.
C4_WitnessTxs ==
    /\ pt_pc = "insert"
    /\ pt_second_pass
    /\ \E k \in DOMAIN transactions : \E r \in db_transactions :
          /\ r.transaction_id = transactions[k].transaction_id
          /\ r.block_time # transactions[k].block_time

\* ------------------------------------------- batch-boundary independence (C5)
\* addresses_transactions of a run that flushes once: a row per output, and a
\* row per input whose spent output is stored.
RefAddresses ==
    insert_address_transactions_from_inputs(
        insert_address_transactions({},
            Flatten([k \in DOMAIN RefTxs |-> map_transaction_outputs_address(RefTxs[k])])),
        RefTransactions, RefInputs, RefOutputs,
        {RefTxs[k].transaction_id : k \in DOMAIN RefTxs})

ParentRowsHaveBlock == \A r \in db_block_parent : r[1] \in db_blocks
BlockTxRowsHaveTransaction ==
    \A r \in db_blocks_transactions : \E t \in db_transactions : t.transaction_id = r[2]
BlockTxRowsHaveBlock == \A r \in db_blocks_transactions : r[1] \in db_blocks

\* Block b was fetched and is still queued for, or buffered in, Block
\* Processor, whose flush has not inserted it yet.
OnItsWayToBlocks(b) ==
    \/ \E k \in DOMAIN rpc_blocks_queue : rpc_blocks_queue[k].hash = b
    \/ /\ pb_pc \in {"pop", "insert_blocks"}
       /\ b \in HashesOf(pb_checkpoint_blocks)

\* The statement as claimed: in every store state all three references hold.
C7_AllReferencesAlways ==
    ParentRowsHaveBlock /\ BlockTxRowsHaveTransaction /\ BlockTxRowsHaveBlock

\* C7: in every store state a block_parent row (b, p) has b in blocks and a
\* blocks_transactions row (b, t) has t in transactions; the block b of a
\* blocks_transactions row is in blocks or still on its way through Block
\* Processor, which commits it independently of Transaction Processor.
C7_ReferentialIntegrity ==
    /\ ParentRowsHaveBlock
    /\ BlockTxRowsHaveTransaction
    /\ \A r \in db_blocks_transactions : r[1] \in db_blocks \/ OnItsWayToBlocks(r[1])

\* Transaction Processor has committed the relation rows of a block that Block
\* Processor has not committed yet, while parent rows are stored.
C7_Witness ==
    /\ db_block_parent # {}
    /\ \E r \in db_blocks_transactions : r[1] \notin db_blocks

\* --------------------------------------------------- acceptance ordering (C8)
AcceptingBlocks == {r.block_hash : r \in db_transactions_acceptances} \ {NULL}

\* The statement as claimed: an accepting block with rows in the store was
\* committed by Block Processor before.
C8_AcceptedAfterBlockCommitted == AcceptingBlocks \subseteq db_blocks

\* C8: the accepting block X of a stored acceptance row is less than
\* 60 * net_bps of DAA score ahead of the last block Block Processor has
\* published; X itself may still be uncommitted.
C8_AcceptedWithinLead ==
    \A x \in AcceptingBlocks :
        /\ last_block # NULL
        /\ SaturatingSub(daa_score(x), daa_score(last_block)) < VCP_MAX_LEAD_SECONDS * net_bps

\* Acceptance rows of a block that Block Processor has not committed.
C8_Witness == \E x \in AcceptingBlocks : x \notin db_blocks /\ last_block # NULL

\* ------------------------------------------------------------ interlock (C9)
\* The virtual chain processor is between leaving the wait loop and the end of
\* its writes.
Applying == pv_pc \in {"remove", "accept"}

\* Block Processor has published a block and the candidate is less than
\* 60 * net_bps of DAA score above it.
PublishedWithinLead ==
    /\ last_block # NULL
    /\ SaturatingSub(daa_score(checkpoint_block), daa_score(last_block))
           < VCP_MAX_LEAD_SECONDS * net_bps

WaitsWhileClosed ==
    (pv_pc = "wait" /\ ~PublishedWithinLead)
        => /\ pv_pc' = "wait"
           /\ vcp_log' = vcp_log
           /\ res_added' = res_added

\* C9: while the virtual chain processor applies a batch, Block Processor has
\* published a last block b whose flush is written and the candidate's
\* daa_score is less than 60 * net_bps above b's (saturating at 0); a last
\* block is published only with its rows written; and while no block is
\* published or the difference is larger the processor stays in its wait loop
\* and writes nothing.
C9_Interlock ==
    /\ [](Applying => PublishedWithinLead /\ BlockRowsCommitted(last_block))
    /\ [](last_block # NULL => BlockRowsCommitted(last_block))
    /\ [][WaitsWhileClosed]_vars

\* The processor is held in the wait loop by the interlock.
C9_Witness == pv_pc = "wait" /\ ~PublishedWithinLead

\* A batch is being applied with the candidate ahead of the published block.
C9_WitnessApplying == Applying /\ daa_score(checkpoint_block) > daa_score(last_block)

\* ----------------------------------------------------------------- reorg (C10)
RowsOf(t) == {r \in db_transactions_acceptances : r.transaction_id = t}

\* The state right after the acceptance inserts of a batch with removals.
ReorgApplied == pv_pc = "push" /\ res_removed # << >>

\* C10: after a batch with removed chain blocks is applied, every transaction
\* accepted by an added block has exactly one acceptance row, keyed on that
\* block, and no row is keyed on a removed block; within a batch the removal
\* is done before the first acceptance insert.
C10_Reorg ==
    /\ ReorgApplied =>
          /\ \A k \in DOMAIN res_added :
                \A j \in DOMAIN res_added[k].accepted_transaction_ids :
                    RowsOf(res_added[k].accepted_transaction_ids[j]) =
                        {[transaction_id |-> res_added[k].accepted_transaction_ids[j],
                          block_hash |-> res_added[k].accepting_block_hash]}
          /\ \A h \in Range(res_removed) : h \notin AcceptingBlocks
    /\ vcp_log \in {<< >>, <<"remove">>, <<"remove", "accept">>}

\* The batch removed=[ForkH], added beginning with ForkH2, which accepts the
\* coinbase of ForkC that ForkH had accepted, has been applied.
C10_Witness ==
    /\ ReorgApplied
    /\ res_removed = <<ForkH>>
    /\ res_added[1].accepting_block_hash = ForkH2
    /\ RowsOf(Coinbase(ForkC)) = {[transaction_id |-> Coinbase(ForkC), block_hash |-> ForkH2]}
    /\ vcp_log = <<"remove", "accept">>

\* -------------------------------------------------------------- dedup (C11)
\* TxB arrives in block 3 and again in block 4.
BufferedCopies(t) == {k \in DOMAIN transactions : transactions[k].transaction_id = t}

\* Transaction Processor has written the flushes that hold blocks 3 and 4.
BothBlocksFlushed ==
    /\ {3, 4} \subseteq pt_dequeued
    /\ 3 \notin HashesOf(pt_checkpoint_blocks) \/ pt_pc = "push"
    /\ 4 \notin HashesOf(pt_checkpoint_blocks) \/ pt_pc = "push"

\* C11: TxB, carried by blocks 3 and 4, is buffered (mapped) at most once, and
\* not at all in a flush that holds block 4 without block 3; once both blocks
\* are flushed the store has one transactions row for TxB, that of block 3,
\* one row per input and output of TxB, address rows of that one mapping only,
\* and both blocks_transactions rows (3, TxB) and (4, TxB).
C11_Dedup ==
    /\ Cardinality(BufferedCopies(TxB)) <= 1
    /\ (4 \in HashesOf(pt_checkpoint_blocks) /\ 3 \notin HashesOf(pt_checkpoint_blocks))
          => BufferedCopies(TxB) = {}
    /\ BothBlocksFlushed =>
          /\ {r \in db_transactions : r.transaction_id = TxB} = {map_transaction(TxB, 3)}
          /\ {r \in db_blocks_transactions : r[2] = TxB} = {<<3, TxB>>, <<4, TxB>>}
          /\ {r.index : r \in {x \in db_transactions_inputs : x.transaction_id = TxB}}
                = {k - 1 : k \in DOMAIN TxInputs(TxB)}
          /\ Cardinality({r \in db_transactions_inputs : r.transaction_id = TxB})
                = Len(TxInputs(TxB))
          /\ {r \in db_transactions_outputs : r.transaction_id = TxB} = Range(map_transaction_outputs(TxB))
          /\ \A r \in db_addresses_transactions :
                r.transaction_id = TxB => r.block_time = timestamp(3)
          /\ \E r \in db_addresses_transactions : r.transaction_id = TxB

\* Blocks 3 and 4 went through separate flushes and both are written.
C11_Witness ==
    /\ BothBlocksFlushed
    /\ pt_pc = "push"
    /\ HashesOf(pt_checkpoint_blocks) = {4}
    /\ <<4, TxB>> \in db_blocks_transactions

\* Blocks 3 and 4 went through one flush.
C11_WitnessSameFlush ==
    /\ BothBlocksFlushed
    /\ pt_pc = "push"
    /\ {3, 4} \subseteq HashesOf(pt_checkpoint_blocks)

\* ------------------------------------------------- candidates are pushed (C12)
\* The step appends one candidate to the Checkpoint queue.
PushStep ==
    /\ Len(checkpoint_queue') = Len(checkpoint_queue) + 1
    /\ checkpoint_queue' = Append(checkpoint_queue, Last(checkpoint_queue'))
Pushed == Last(checkpoint_queue')

\* A candidate of origin o for block h was pushed before: it is in the queue
\* or the coordinator has consumed it.
PushedBefore(o, h) ==
    \/ Consumed(o, h)
    \/ \E k \in DOMAIN checkpoint_queue : checkpoint_queue[k] = CheckpointBlock(o, h)

\* The acceptance rows of the batch at hand are written, the removed ones gone.
BatchApplied ==
    /\ \A k \in DOMAIN res_added :
          \A j \in DOMAIN res_added[k].accepted_transaction_ids :
              \E r \in db_transactions_acceptances :
                  r.transaction_id = res_added[k].accepted_transaction_ids[j]
    /\ \A r \in db_transactions_acceptances : r.block_hash \notin Range(res_removed)

PushAfterWrites ==
    PushStep =>
        /\ Pushed.origin = "Blocks" =>
              /\ pb_pc = "push" /\ last_block = Last(pb_checkpoint_blocks).hash
              /\ \A h \in HashesOf(pb_checkpoint_blocks) : BlockRowsCommitted(h)
              /\ Pushed.hash \in pb_dequeued
              /\ ~PushedBefore("Blocks", Pushed.hash)
              /\ \A h \in 1..(Pushed.hash - 1) : PushedBefore("Blocks", h)
        /\ Pushed.origin = "Transactions" =>
              /\ pt_pc = "push"
              /\ \A h \in HashesOf(pt_checkpoint_blocks) :
                    TxRowsCommitted(h) /\ AddressRowsCommitted(h)
              /\ Pushed.hash \in pt_dequeued
              /\ ~PushedBefore("Transactions", Pushed.hash)
              /\ \A h \in 1..(Pushed.hash - 1) : PushedBefore("Transactions", h)
        /\ Pushed.origin = "Vcp" =>
              /\ pv_pc = "push" /\ vcp_log = <<"remove", "accept">>
              /\ Pushed.hash = checkpoint_block
              /\ BatchApplied

\* No dequeued block is dropped: it is buffered, waits for its push, or was pushed.
NoCandidateDropped ==
    /\ \A h \in pb_dequeued :
          \/ PushedBefore("Blocks", h)
          \/ /\ h \in HashesOf(pb_checkpoint_blocks)
             /\ pb_pc = "push" => h \in HashesOf(pb_push)
    /\ \A h \in pt_dequeued :
          \/ PushedBefore("Transactions", h)
          \/ /\ h \in HashesOf(pt_checkpoint_blocks)
             /\ pt_pc = "push" => h \in HashesOf(pt_push)

\* C12: a candidate is pushed to the Checkpoint queue only when every store
\* write of its flush or batch is done; Block Processor and Transaction
\* Processor push one candidate per dequeued block, each once and in dequeue
\* order; a full queue holds the push back and no candidate is lost.
C12_PushAfterWrites ==
    /\ [][PushAfterWrites]_vars
    /\ []NoCandidateDropped

\* Block Processor waits with a candidate in hand because the queue is full.
C12_Witness ==
    /\ pb_pc = "push"
    /\ Len(checkpoint_queue) = CpQueueCap
    /\ Len(pb_push) < Len(pb_checkpoint_blocks)
    /\ pb_push # << >>

\* A Vcp candidate is in the queue.
C12_WitnessVcp == \E k \in DOMAIN checkpoint_queue : checkpoint_queue[k].origin = "Vcp"

\* ----------------------------------------------- failed writes are fatal (C13)
Queued(o) == {checkpoint_queue[k].hash :
                 k \in {j \in DOMAIN checkpoint_queue : checkpoint_queue[j].origin = o}}
FailedBatchVcp == {res_added[k].accepting_block_hash : k \in DOMAIN res_added}

\* A stage whose write failed does nothing more.
StageStops ==
    /\ pb_pc = "failed" => UNCHANGED <<pbVars, blockTables>>
    /\ pt_pc = "failed" => UNCHANGED <<ptVars, txTables>>
    /\ pv_pc = "failed" => UNCHANGED <<pvVars, db_transactions_acceptances>>
    /\ cp_failed => /\ UNCHANGED <<cpVars, db_block_checkpoint>>
                    /\ Len(checkpoint_queue') >= Len(checkpoint_queue)

\* No candidate of the failed stage for a block of the failed batch exists,
\* and the saved checkpoint lies before the failed batch.
FailedBatchNotCheckpointed ==
    /\ pb_pc = "failed" =>
          \A h \in HashesOf(pb_checkpoint_blocks) :
              /\ ~PushedBefore("Blocks", h)
              /\ db_block_checkpoint < h
    /\ pt_pc = "failed" =>
          \A h \in HashesOf(pt_checkpoint_blocks) :
              /\ ~PushedBefore("Transactions", h)
              /\ db_block_checkpoint < h
    /\ pv_pc = "failed" =>
          \A h \in FailedBatchVcp :
              /\ h \notin Queued("Vcp")
              /\ checkpoint_candidate # Some(CheckpointBlock("Vcp", h))
              /\ db_block_checkpoint < h
    /\ cp_failed =>
          /\ checkpoint_candidate # None
          /\ db_block_checkpoint # checkpoint_candidate[1].hash

\* Candidates in the queue are those of written flushes.
QueuedAreWritten ==
    /\ \A h \in Queued("Blocks") : BlockRowsCommitted(h)
    /\ \A h \in Queued("Transactions") : TxRowsCommitted(h)

\* C13: a store write that fails in Block Processor, Transaction Processor,
\* the virtual chain processor or the coordinator ends that stage where it
\* is; the stage enqueues no candidate for a block of the failed batch, every
\* candidate in the queue is one of a written flush, and the saved checkpoint
\* never reaches a block of the failed batch.
C13_FailedWriteIsFatal ==
    /\ [][StageStops]_vars
    /\ []FailedBatchNotCheckpointed
    /\ []QueuedAreWritten

\* Block Processor failed on a flush of two blocks and a checkpoint is saved.
C13_Witness ==
    /\ pb_pc = "failed"
    /\ Len(pb_checkpoint_blocks) = 2
    /\ db_block_checkpoint # NULL

C13_WitnessTxs == pt_pc = "failed" /\ db_transactions # {} /\ Queued("Blocks") # {}
C13_WitnessVcp == pv_pc = "failed" /\ res_removed # << >>
C13_WitnessSave == cp_failed /\ checkpoint_queue # << >>

\* ------------------------------------------------- start notification (C14)
\* A step that runs the pre-VCP purge of a flush.
PurgeStep ==
    /\ pb_pc = "purge" /\ pb_pc' = "publish"
    /\ ~vcp_started /\ ~disable_virtual_chain_processing

\* The flush deleted no acceptance row and ended synced (or without the wait).
QuietFlush ==
    /\ db_transactions_acceptances' = db_transactions_acceptances
    /\ pb_synced \/ disable_vcp_wait_for_sync

NoopCounting ==
    /\ PurgeStep =>
          /\ noop_delete_count' = IF QuietFlush THEN noop_delete_count + 1 ELSE 0
          /\ start_vcp' # start_vcp =>
                /\ start_vcp'
                /\ QuietFlush
                /\ noop_delete_count = NOOP_DELETES_BEFORE_VCP - 1
          /\ (QuietFlush /\ noop_delete_count = NOOP_DELETES_BEFORE_VCP - 1) => start_vcp'
    /\ ~PurgeStep => UNCHANGED <<noop_delete_count, start_vcp>>

C14_WitnessStarted == start_vcp /\ restarts = 1

\* A flush that deletes nothing but did not end synced.
C14_WitnessUnsynced ==
    /\ pb_pc = "purge" /\ ~vcp_started /\ ~disable_virtual_chain_processing
    /\ ~pb_synced
    /\ ~ \E r \in db_transactions_acceptances :
          r.block_hash \in PurgeHashes(pb_checkpoint_blocks, first_block)

\* ------------------------------------------- start_vcp is a one-way gate (C15)
\* A step in which the Virtual Chain Processor writes to the store.
VcpWriteStep ==
    /\ pv_pc \in {"remove", "accept"}
    /\ pv_pc' \in {"accept", "push"}
    /\ pv_pc' # pv_pc

\* The Virtual Chain Processor has written to the store since start-up.
VcpHasWritten ==
    \/ pv_pc \in {"accept", "push"}
    \/ vcp_log # << >>
    \/ start_hash # 1

StartVcpGate ==
    /\ start_vcp => start_vcp'
    /\ start_vcp' # start_vcp => PurgeStep
    /\ PurgeStep => ~start_vcp /\ ~VcpHasWritten
    /\ VcpWriteStep => start_vcp /\ vcp_started
    /\ db_transactions_acceptances' # db_transactions_acceptances =>
          PurgeStep \/ VcpWriteStep

\* C15: within a run start_vcp only ever goes from false to true, and only a
\* Block Processor flush changes it; a flush purges acceptance rows only while
\* it is false and the Virtual Chain Processor writes only while it is true,
\* so no purge follows a Virtual Chain Processor write.
C15_StartVcpOneWay ==
    /\ [][StartVcpGate]_vars
    /\ [](VcpHasWritten => start_vcp /\ vcp_started)

\* The Virtual Chain Processor has written and Block Processor flushes again.
C15_Witness ==
    /\ VcpHasWritten
    /\ db_transactions_acceptances # {}
    /\ pb_pc = "purge" /\ vcp_started

\* ------------------------------------------------ the block the purge skips (C16)
\* The acceptance rows left by a purge of the block hashes hs.
RowsKept(hs) == {r \in db_transactions_acceptances : r.block_hash \notin hs}

\* As stated: every pre-VCP flush purges all of its batch but its first block.
C16_SkipsFirstOfEveryBatch ==
    [][PurgeStep =>
          db_transactions_acceptances' =
              RowsKept({pb_checkpoint_blocks[k].hash :
                            k \in DOMAIN pb_checkpoint_blocks \ {1}})]_vars

PurgeSkipsFirstBlockOnce ==
    /\ PurgeStep =>
          /\ ~first_block'
          /\ db_transactions_acceptances' =
                RowsKept({pb_checkpoint_blocks[k].hash :
                              k \in DOMAIN pb_checkpoint_blocks \
                                       (IF first_block THEN {1} ELSE {})})
    /\ ~PurgeStep => first_block' = first_block

\* C16: only the first pre-VCP flush after start-up leaves out the first block
\* of its batch (the block the run started from); every later pre-VCP flush
\* deletes the acceptance rows of every block hash of its batch.
C16_SkipsFirstBlockAfterStart == [][PurgeSkipsFirstBlockOnce]_vars

\* A later flush is about to delete acceptance rows of the first block of its
\* batch.
C16_Witness ==
    /\ pb_pc = "purge" /\ ~vcp_started /\ ~disable_virtual_chain_processing
    /\ ~first_block
    /\ \E r \in db_transactions_acceptances :
          r.block_hash = pb_checkpoint_blocks[1].hash

\* The first flush after a restart keeps the rows of the block it started from.
C16_WitnessFirst ==
    /\ pb_pc = "purge" /\ ~vcp_started /\ ~disable_virtual_chain_processing
    /\ first_block /\ restarts = 1
    /\ \E r \in db_transactions_acceptances :
          r.block_hash = pb_checkpoint_blocks[1].hash

\* ------------------------------------------------------ when a flush starts (C17)
\* More than two seconds have gone by since the last flush, blocks are buffered
\* and none is waiting on the Blocks queue.
IdleWithBuffer ==
    /\ pb_pc = "stale"
    /\ pb_checkpoint_blocks # << >>
    /\ rpc_blocks_queue = << >>

\* A step in which the Block Processor writes, purges, publishes or pushes.
PbFlushing ==
    \/ PbInsertBlocks \/ PbInsertBlockParents \/ PbPurge \/ PbPublish \/ PbPush

\* As stated: a stale, non-empty buffer is flushed whether or not another block
\* arrives, so with no block on the queue a flush step is possible.
C17_FlushesWithoutArrival == IdleWithBuffer => ENABLED PbFlushing

PbPopStep == rpc_blocks_queue # << >> /\ rpc_blocks_queue' = Tail(rpc_blocks_queue)

FlushOnPopOnly ==
    /\ (pb_pc \in {"pop", "stale"} /\ pb_pc' = "insert_blocks") =>
          /\ PbPopStep
          /\ pb_checkpoint_blocks' =
                Append(pb_checkpoint_blocks,
                       CheckpointBlock("Blocks", Head(rpc_blocks_queue).hash))
    /\ (pb_pc \in {"pop", "stale"} /\ PbPopStep) =>
          /\ Len(pb_checkpoint_blocks') >= batch_size => pb_pc' = "insert_blocks"
          /\ pb_pc = "stale" => pb_pc' = "insert_blocks"
    /\ (pb_pc \in {"pop", "stale"} /\ ~PbPopStep) =>
          /\ pb_pc' \in {"pop", "stale"}
          /\ UNCHANGED <<pb_checkpoint_blocks, db_blocks, db_block_parent>>

\* Every dequeued block is written or still in the buffer.
DequeuedWrittenOrBuffered ==
    /\ \A b \in pb_dequeued :
          BlockRowsCommitted(b) \/ b \in HashesOf(pb_checkpoint_blocks)
    /\ pb_pc \in {"pop", "stale"} =>
          /\ Len(pb_checkpoint_blocks) < batch_size
          /\ \A b \in pb_dequeued :
                BlockRowsCommitted(b) = (b \notin HashesOf(pb_checkpoint_blocks))

\* C17: the flush test is made only right after a block is dequeued: the flush
\* starts when the buffer then holds batch_size candidates or when more than
\* two seconds have passed since the last flush; while no block arrives a
\* buffer below batch_size stays unwritten, however long it waits.
C17_FlushOnlyOnArrival ==
    /\ [][FlushOnPopOnly]_vars
    /\ []DequeuedWrittenOrBuffered
    /\ [](IdleWithBuffer => ~ENABLED PbFlushing)

\* The node has no further block and the last dequeued block waits unwritten.
C17_Witness ==
    /\ IdleWithBuffer
    /\ fetch_pos > dag_end
    /\ ~BlockRowsCommitted(Last(pb_checkpoint_blocks).hash)

\* A block arrived after the wait and the buffer is flushed below batch_size.
C17_WitnessLateFlush ==
    /\ pb_pc = "insert_blocks"
    /\ Len(pb_checkpoint_blocks) < batch_size
    /\ Len(pb_checkpoint_blocks) > 1

\* ------------------------------------------------ selecting a candidate (C18)
\* A step in which the coordinator takes the popped candidate as the pending
\* one (it may save it in the same iteration).
SelectStep == intervals_elapsed' = intervals_elapsed + 1

SelectionRule ==
    /\ SelectStep =>
          /\ checkpoint_candidate = None
          /\ since_last_saved >= CHECKPOINT_SAVE_INTERVAL
          /\ Head(checkpoint_queue).origin =
                (IF disable_virtual_chain_processing THEN "Blocks" ELSE "Vcp")
          /\ Head(checkpoint_queue).origin # "Initial"
          /\ \/ checkpoint_candidate' = Some(Head(checkpoint_queue))
             \/ /\ checkpoint_candidate' = None
                /\ db_block_checkpoint' = Head(checkpoint_queue).hash
                /\ metrics_checkpoint_origin' = Head(checkpoint_queue).origin
    /\ (checkpoint_candidate' # checkpoint_candidate /\ checkpoint_candidate' # None) =>
          SelectStep
    /\ metrics_checkpoint_origin' # metrics_checkpoint_origin =>
          metrics_checkpoint_origin' =
              (IF disable_virtual_chain_processing THEN "Blocks" ELSE "Vcp")

\* The clock that gates the selection restarts at a save and at a failure.
SaveClockRestarts ==
    (checkpoint_candidate # None /\ checkpoint_candidate' = None) =>
        since_last_saved' = 0

\* C18: a candidate is selected only when none is pending and at least 60 s
\* have passed since the last save, the last failed candidate or start-up; it
\* is of origin Vcp when the virtual chain is followed and of origin Blocks
\* when it is not, never of origin Initial.
C18_SelectionRule ==
    /\ [][SelectionRule /\ SaveClockRestarts]_vars
    /\ [](checkpoint_candidate # None =>
            checkpoint_candidate[1].origin =
                (IF disable_virtual_chain_processing THEN "Blocks" ELSE "Vcp"))

\* A second candidate is pending, selected after an earlier one was saved.
C18_Witness ==
    /\ checkpoint_candidate # None
    /\ intervals_elapsed >= 2
    /\ db_block_checkpoint # NULL

\* A candidate of origin Blocks is pending.
C18_WitnessBlocks ==
    /\ checkpoint_candidate # None
    /\ checkpoint_candidate[1].origin = "Blocks"

\* The last candidate was declared failed and none has been selected since.
JustFailed ==
    /\ checkpoint_candidate = None
    /\ intervals_elapsed > 0
    /\ ~(cp_ok_blocks /\ cp_ok_txs)

\* After a failed candidate the interval has passed again and the next
\* candidate is at the head of the queue.
C18_WitnessAfterFailure ==
    /\ JustFailed
    /\ since_last_saved > CHECKPOINT_SAVE_INTERVAL
    /\ checkpoint_queue # << >>
    /\ Head(checkpoint_queue).origin = "Vcp"

\* ---------------------------------------------- what the coordinator keeps (C19)
\* As stated: a pending candidate is recognised by an origin that reported its
\* hash at any time since the last save.
C19_RecognisedIfReportedSinceSave ==
    checkpoint_candidate # None =>
        /\ checkpoint_candidate[1].hash \in seen_blocks => cp_ok_blocks
        /\ checkpoint_candidate[1].hash \in seen_txs => cp_ok_txs

\* An iteration that ends with a candidate pending or saved.
CandidateIteration ==
    /\ checkpoint_queue # << >>
    /\ checkpoint_queue' = Tail(checkpoint_queue)
    /\ checkpoint_candidate # None \/ SelectStep

\* The candidate that iteration is about.
IterationCandidate ==
    IF checkpoint_candidate # None THEN checkpoint_candidate[1]
    ELSE Head(checkpoint_queue)

ForgetfulConfirmation ==
    /\ CandidateIteration =>
          LET cb == Head(checkpoint_queue)
              x == IterationCandidate.hash
          IN /\ blocks_processed' = {} /\ txs_processed' = {}
             /\ cp_ok_blocks' =
                   \/ ~SelectStep /\ cp_ok_blocks
                   \/ SelectStep /\ cb.origin = "Blocks"
                   \/ x \in blocks_processed
                   \/ cb = CheckpointBlock("Blocks", x)
             /\ cp_ok_txs' =
                   \/ ~SelectStep /\ cp_ok_txs
                   \/ disable_transaction_processing
                   \/ x \in txs_processed
                   \/ cb = CheckpointBlock("Transactions", x)
    /\ (checkpoint_queue # << >> /\ checkpoint_queue' = Tail(checkpoint_queue)
           /\ ~CandidateIteration) =>
          LET cb == Head(checkpoint_queue)
          IN /\ blocks_processed' =
                   IF cb.origin = "Blocks" /\ ~disable_virtual_chain_processing
                   THEN blocks_processed \cup {cb.hash} ELSE blocks_processed
             /\ txs_processed' =
                   IF cb.origin = "Transactions"
                   THEN txs_processed \cup {cb.hash} ELSE txs_processed
             /\ UNCHANGED <<cp_ok_blocks, cp_ok_txs>>

KeptOnlyWhileNonePending ==
    /\ checkpoint_candidate # None => blocks_processed = {} /\ txs_processed = {}
    /\ blocks_processed \subseteq seen_blocks
    /\ txs_processed \subseteq seen_txs
    /\ checkpoint_candidate # None =>
          /\ cp_ok_blocks => checkpoint_candidate[1].hash \in seen_blocks
          /\ (cp_ok_txs /\ ~disable_transaction_processing) =>
                checkpoint_candidate[1].hash \in seen_txs

\* C19: the coordinator keeps the hashes of an origin only while no candidate
\* is pending; every iteration with a candidate tests it against the kept
\* hashes and the one just consumed and then empties both sets.  A candidate is
\* recognised by an origin that reported its hash while it was pending, or
\* before it was selected and after the last iteration that had a candidate; a
\* report consumed while another candidate was pending is forgotten.
C19_KeptOnlyWhileNonePending ==
    /\ [][ForgetfulConfirmation]_vars
    /\ []KeptOnlyWhileNonePending

\* A pending candidate whose hash Block Processor reported since the last save
\* is not recognised: the report came while an earlier candidate was pending.
C19_Witness ==
    /\ checkpoint_candidate # None
    /\ db_block_checkpoint # NULL
    /\ checkpoint_candidate[1].hash \in seen_blocks
    /\ ~cp_ok_blocks
    /\ last_block_blue_score > blue_score(checkpoint_candidate[1].hash)

\* The same for a report of Transaction Processor.
C19_WitnessTxs ==
    /\ checkpoint_candidate # None
    /\ checkpoint_candidate[1].hash \in seen_txs
    /\ ~cp_ok_txs
    /\ last_tx_blue_score > blue_score(checkpoint_candidate[1].hash)

\* A candidate recognised by a report that came before it was selected.
C19_WitnessKept ==
    /\ checkpoint_candidate # None
    /\ checkpoint_candidate[1].origin = "Vcp"
    /\ cp_ok_blocks /\ ~cp_ok_txs
    /\ last_block_blue_score > blue_score(checkpoint_candidate[1].hash)

\* ------------------------------------------------- the failed candidate (C20)
\* The blue score beyond which a report counts against the pending candidate.
FailedBeyond == blue_score(checkpoint_candidate[1].hash) + CHECKPOINT_FAILED_TIMEOUT * net_bps

\* As stated: a candidate does not stay pending once the latest blue score
\* reported by Block Processor is beyond the timeout.
C20_FailsOnBlocksScore ==
    checkpoint_candidate # None => last_block_blue_score <= FailedBeyond

\* An iteration that has a candidate and does not save it.
UnsyncedIteration == CandidateIteration /\ ~(cp_ok_blocks' /\ cp_ok_txs')

FailedRule ==
    UnsyncedIteration =>
        LET x == IterationCandidate
            limit == blue_score(x.hash) + CHECKPOINT_FAILED_TIMEOUT * net_bps
            warn_due == ~SelectStep /\ since_last_warned > CHECKPOINT_WARN_INTERVAL
            timed_out == /\ last_block_blue_score' > limit
                         /\ \/ disable_transaction_processing
                            \/ last_tx_blue_score' > limit
        IN /\ checkpoint_candidate' = IF ~warn_due /\ timed_out THEN None ELSE Some(x)
           /\ since_last_saved' = IF ~warn_due /\ timed_out THEN 0 ELSE since_last_saved
           /\ warn_due => since_last_warned' = 0
           /\ UNCHANGED db_block_checkpoint

\* Outside an iteration only the clock moves; the candidate stays.
CandidateOnlyChangesInIteration ==
    ~(checkpoint_queue # << >> /\ checkpoint_queue' = Tail(checkpoint_queue)) =>
        UNCHANGED <<checkpoint_candidate, db_block_checkpoint>>

\* C20: in an iteration that has a candidate without synchronization and in
\* which no warning is due, the coordinator declares the candidate failed when
\* the latest Blocks blue score exceeds candidate.blue_score + 600 * net_bps
\* and, unless transaction processing is disabled, the latest Transactions blue
\* score does too; it then clears the candidate and restarts the save interval.
\* When a warning is due (more than 120 s since the last one) the iteration
\* only warns, and the test is made at the next one.
C20_FailedRule == [][FailedRule /\ CandidateOnlyChangesInIteration]_vars

\* The Blocks score is beyond the timeout, the Transactions score is not, and
\* the candidate is still pending.
C20_Witness ==
    /\ checkpoint_candidate # None
    /\ ~disable_transaction_processing
    /\ last_block_blue_score > FailedBeyond
    /\ last_tx_blue_score <= FailedBeyond
    /\ since_last_warned > 0

\* Both scores are beyond the timeout and the iteration only warned.
C20_WitnessWarned ==
    /\ checkpoint_candidate # None
    /\ last_block_blue_score > FailedBeyond
    /\ disable_transaction_processing \/ last_tx_blue_score > FailedBeyond
    /\ since_last_warned = 0

\* A candidate was declared failed with transaction processing enabled.
C20_WitnessFailed == JustFailed /\ ~disable_transaction_processing /\ since_last_saved = 0


\* ------------------------------------------------ the tip distance cut (C21)
\* What the node answers to a poll from the state at hand.
Response == get_virtual_chain_from_block(start_hash, node_tip)
ResponseCount == Len(Response.added_chain_block_hashes)
VcpPolling == ~disable_virtual_chain_processing /\ pv_pc = "poll" /\ start_vcp
BatchTaken == pv_pc = "poll" /\ pv_pc' = "wait"
VcpCandidates(q) == {k \in DOMAIN q : q[k].origin = "Vcp"}

\* A batch is taken only from a response longer than the tip distance, and it
\* is all removed hashes with the first n - d added blocks and their accepted
\* transaction ids.
TakesFirstBlocks ==
    BatchTaken =>
        /\ ResponseCount > tip_distance
        /\ res_removed' = Response.removed_chain_block_hashes
        /\ Len(res_added') = ResponseCount - tip_distance
        /\ \A k \in DOMAIN res_added' :
              /\ res_added'[k].accepting_block_hash = Response.added_chain_block_hashes[k]
              /\ Range(res_added'[k].accepted_transaction_ids) =
                    AcceptedBy(Response.added_chain_block_hashes[k])

\* The batch taken is the batch applied: every removed hash loses its rows, the
\* rows that appear are accepted by a block of the batch, and start_hash
\* becomes the last block of the batch, which is the candidate pushed.
AppliesTheBatch ==
    /\ pv_pc = "remove" /\ pv_pc' = "accept" =>
          \A r \in db_transactions_acceptances' : r.block_hash \notin Range(res_removed)
    /\ pv_pc = "accept" /\ pv_pc' = "push" =>
          /\ \A r \in db_transactions_acceptances' \ db_transactions_acceptances :
                \E k \in DOMAIN res_added :
                   /\ r.block_hash = res_added[k].accepting_block_hash
                   /\ r.transaction_id \in Range(res_added[k].accepted_transaction_ids)
          /\ \A k \in DOMAIN res_added :
                \A t \in Range(res_added[k].accepted_transaction_ids) :
                   \E r \in db_transactions_acceptances' : r.transaction_id = t
    /\ pv_pc = "push" /\ pv_pc' = "poll" =>
          /\ start_hash' = res_added[Len(res_added)].accepting_block_hash
          /\ Last(checkpoint_queue') = CheckpointBlock("Vcp", start_hash')

\* A response that does not reach beyond the tip distance changes nothing.
ShortResponseIgnored ==
    VcpPolling /\ ResponseCount <= tip_distance =>
        /\ pv_pc' \in {"poll", "err_delay"}
        /\ UNCHANGED <<start_hash, tip_distance, vcp_log, res_removed, res_added>>
        /\ db_transactions_acceptances' \subseteq db_transactions_acceptances
        /\ Cardinality(VcpCandidates(checkpoint_queue'))
              <= Cardinality(VcpCandidates(checkpoint_queue))

\* C21: from a response with n added chain blocks and tip distance d, n > d
\* applies all removed hashes and exactly the first n - d added blocks and
\* moves start_hash to the last of them; n <= d applies nothing, pushes no
\* candidate and leaves start_hash alone.
C21_TipDistanceCut ==
    [][TakesFirstBlocks /\ AppliesTheBatch /\ ShortResponseIgnored]_vars

\* A batch cut short by a positive tip distance has been applied.
C21_Witness ==
    /\ pv_pc = "push" /\ tip_distance > 0
    /\ Len(res_added) < added_blocks_count
    /\ \E r \in db_transactions_acceptances :
          r.block_hash = res_added[Len(res_added)].accepting_block_hash

\* A response that is not empty, and not longer than the tip distance.
C21_WitnessShort ==
    VcpPolling /\ synced /\ ResponseCount > 0 /\ ResponseCount <= tip_distance


\* ------------------------------------------- the tip distance goes down (C22)
Decremented == tip_distance' < tip_distance
NeverNegative == tip_distance >= 0 /\ (~dynamic_tip_distance => tip_distance = 0)
\* The entries of the window that the batch at hand does not push out.
WindowKept == 1..SeqMin(Len(tip_distance_history), tip_distance_window - 1)
DecrementRule ==
    Decremented =>
        /\ synced /\ tip_distance > 0
        /\ tip_distance' = tip_distance - 1
        /\ rows_removed' = 0
        /\ \A k \in WindowKept : ~tip_distance_history[k]

C22_WitnessUnsynced ==
    /\ dynamic_tip_distance /\ ~synced
    /\ Len(tip_distance_history) = tip_distance_window
    /\ tip_distance = INITIAL_TIP_DISTANCE

\* With dynamic mode disabled batches are applied and the distance stays 0.
C22_WitnessDisabled == ~dynamic_tip_distance /\ synced /\ tip_distance = 0


\* --------------------------------------------- the tip distance goes up (C23)
Grew == tip_distance' > tip_distance
BatchEntered == tip_distance_history' # tip_distance_history
\* Reorg batches in the window once the batch at hand is entered in it.
ReorgBatches ==
    Cardinality({k \in WindowKept : tip_distance_history[k]})
       + (IF rows_removed' > 0 THEN 1 ELSE 0)
IncreaseRule ==
    /\ BatchEntered /\ ReorgBatches >= 3 => tip_distance' = tip_distance + 1
    /\ Grew => BatchEntered /\ ReorgBatches >= 3 /\ tip_distance' = tip_distance + 1
HasGrown == quiet_batches # NotGrown

C23_WitnessTwice ==
    /\ dynamic_tip_distance /\ quiet_batches = 0
    /\ tip_distance = INITIAL_TIP_DISTANCE + 2

\* The distance grew and has come down again.
C23_WitnessBack ==
    /\ dynamic_tip_distance /\ HasGrown /\ quiet_batches > 0
    /\ tip_distance < INITIAL_TIP_DISTANCE


\* ------------------------------------------- what VCP persists (C24)
BatchDone == pv_pc = "push" /\ pv_pc' = "poll"
BatchesDone == start_hash # 1

OnlyCoordinatorSaves ==
    db_block_checkpoint' # db_block_checkpoint =>
        /\ checkpoint_queue # << >> /\ checkpoint_queue' = Tail(checkpoint_queue)
        /\ checkpoint_candidate' = None
        /\ UNCHANGED <<pv_pc, start_hash>>

RpcFailed == pv_pc = "poll" /\ pv_pc' \in {"err_delay", "failed"}
\* The failure changes nothing VCP keeps, and the loop polls again after the
\* delay, with the same start_hash.
FailureRetried ==
    /\ RpcFailed =>
          /\ pv_pc' = "err_delay"
          /\ UNCHANGED <<start_hash, tip_distance, tip_distance_history,
                         db_transactions_acceptances, checkpoint_queue>>
    /\ pv_pc = "err_delay" => UNCHANGED start_hash /\ pv_pc' \in {"err_delay", "poll"}

\* C25: a failing node RPC in a VCP iteration (no connection,
\* get_virtual_chain_from_block, get_block of the last accepting block) is
\* never fatal: it leaves start_hash, tip_distance, the reorg history and the
\* store as they are, and the same request is made again after the delay.
C25_RpcFailureNeverFatal == [][FailureRetried]_vars /\ [](pv_pc # "failed")

\* What holds: a failure to get a connection or the virtual chain is retried
\* with nothing changed; a failure of get_block stops VCP with nothing changed.
C25_RetriedUnlessGetBlock ==
    [][/\ RpcFailed =>
             UNCHANGED <<start_hash, tip_distance, tip_distance_history,
                         db_transactions_acceptances, checkpoint_queue>>
       /\ pv_pc = "err_delay" => UNCHANGED start_hash /\ pv_pc' \in {"err_delay", "poll"}
       /\ pv_pc = "failed" => pv_pc' = "failed"]_vars

\* VCP has stopped on a failed get_block, with batches applied before.
C25_Witness == pv_pc = "failed" /\ start_hash # 1


\* ------------------------------------------- the order inside a flush (C26)
FlushTxs == {transactions[k].transaction_id : k \in DOMAIN transactions}
\* The transactions, inputs and outputs of the flush at hand are stored.
FlushRowsStored ==
    \A t \in FlushTxs :
        /\ \E r \in db_transactions : r.transaction_id = t
        /\ \A k \in DOMAIN TxInputs(t) :
              \E r \in db_transactions_inputs : r.transaction_id = t /\ r.index = k - 1
        /\ \A k \in DOMAIN TxOutputs(t) :
              \E r \in db_transactions_outputs : r.transaction_id = t /\ r.index = k - 1
InputMappingDone ==
    \/ pt_pc = "post" /\ pt_pc' = "post_block_txs"
    \/ pt_pc = "post_input_addr" /\ pt_pc' = "push"
BlockTxsDone ==
    \/ pt_pc = "post" /\ pt_pc' = "post_input_addr"
    \/ pt_pc = "post_block_txs" /\ pt_pc' = "push"
EdgesStored == Range(block_tx) \subseteq db_blocks_transactions

\* C26 as stated: the input-side mapping of a flush starts only after its
\* transactions, inputs and outputs are stored, and the blocks_transactions
\* edges are committed last, after the input-side mapping has completed.
C26_EdgesAfterInputMapping ==
    [][/\ InputMappingDone => FlushRowsStored
       /\ BlockTxsDone => pt_pc = "post_block_txs"]_vars

\* C26: the input-side mapping of a flush and the insert of its
\* blocks_transactions edges both start only after its transactions, inputs
\* and outputs are stored; the two run side by side, in either order, and both
\* are through before the flush pushes a candidate.
C26_PostInsertsSideBySide ==
    /\ [][/\ InputMappingDone \/ BlockTxsDone => FlushRowsStored
          /\ pt_pc = "insert" => UNCHANGED <<db_blocks_transactions>>]_vars
    /\ [](pt_pc = "push" => EdgesStored /\ FlushRowsStored)

\* The edges of a flush with inputs are stored while its input-side mapping
\* has not run yet.
C26_Witness ==
    /\ pt_pc = "post_input_addr"
    /\ EdgesStored
    /\ BufferedInputs(transactions) # << >>

\* The other order: the input-side mapping is through, the edges are not.
C26_WitnessMappingFirst ==
    /\ pt_pc = "post_block_txs"
    /\ ~EdgesStored
    /\ BufferedInputs(transactions) # << >>


\* ----------------------------------------------------------------- shutdown
\* The stage tasks main spawns for the configuration at hand.
Tasks ==
    {"process_blocks", "process_checkpoints"}
        \cup (IF disable_transaction_processing THEN {} ELSE {"process_transactions"})
        \cup (IF disable_virtual_chain_processing THEN {} ELSE {"process_virtual_chain"})

taskVars == <<cfgVars, mainVars, peerVars, auxVars, db_vcp_checkpoint, tdVars, importVars, envVars, pbVars, ptVars, pvVars,
              cpVars, checkpoint_queue, blockTables, txTables,
              db_transactions_acceptances, db_block_checkpoint, obsVars, passVars>>

\* handle_signal: the first signal sets shutdown_sent, a repeated one ends the
\* process at once.
HandleSignal ==
    /\ "exit" \notin stopped
    /\ IF shutdown_sent
       THEN stopped' = Tasks \cup {"exit"} /\ UNCHANGED shutdown_sent
       ELSE shutdown_sent' = TRUE /\ UNCHANGED stopped
    /\ UNCHANGED taskVars

\* Where each stage reads is_shutdown(): the head of its while loop, and for
\* process_virtual_chain also the wait for process_blocks.
PbAtLoopHead == pb_pc \in {"pop", "stale"}
PtAtLoopHead == pt_pc = "pop"
PvAtShutdownCheck == pv_pc = "poll" \/ (pv_pc = "wait" /\ ~PublishedWithinLead)

\* A step of a task that has not returned; past a shutdown the step at the
\* loop head is the return.
Runs(task, at_check) ==
    /\ main_pc = "running"
    /\ task \notin stopped
    /\ shutdown_sent => ~at_check

\* The task returns at its shutdown check.
Returns(task, at_check) ==
    /\ main_pc = "running"
    /\ shutdown_sent
    /\ task \in Tasks \ stopped
    /\ at_check
    /\ stopped' = stopped \cup {task}
    /\ UNCHANGED <<shutdown_sent, taskVars>>

SdBlocks ==
    /\ Runs("process_blocks", PbAtLoopHead)
    /\ PbPop \/ PbInsertBlocks \/ PbInsertBlockParents \/ PbPurge \/ PbPublish \/ PbPush
SdTransactions ==
    /\ Runs("process_transactions", PtAtLoopHead)
    /\ PtPop \/ PtInsert \/ PtInsertBlockTxs \/ PtInsertInputTxAddr \/ PtPush
SdVirtualChain ==
    /\ Runs("process_virtual_chain", pv_pc = "poll")
    /\ PvPoll \/ PvPollNothing \/ PvInterlock \/ PvRemove \/ PvAccept \/ PvPush
SdCheckpoints ==
    /\ Runs("process_checkpoints", TRUE)
    /\ CpProcess
PbReturn == Returns("process_blocks", PbAtLoopHead)
PtReturn == Returns("process_transactions", PtAtLoopHead)
PvReturn == Returns("process_virtual_chain", PvAtShutdownCheck)
CpReturn == Returns("process_checkpoints", TRUE)

ShutdownConfigs == { Config(FALSE, FALSE, 1, 1, StartupLen) }

InitShutdown ==
    /\ \E c \in ShutdownConfigs : InitConfig(c)
    /\ NoImport
    /\ InitTasks
    /\ InitStore

NextShutdown ==
    \/ NodeGrow
    \/ FetchBlock
    \/ SdBlocks \/ SdTransactions \/ SdVirtualChain \/ SdCheckpoints
    \/ HandleSignal
    \/ PbReturn \/ PtReturn \/ PvReturn \/ CpReturn

SpecShutdown == InitShutdown /\ [][NextShutdown]_vars


\* ----------------------------------------------------------------- start-up
\* block_dag_info.pruning_point_hash, the first block of the explored DAG
pruning_point_hash == 1

\* start_processing up to the checkpoint: whether the UTXO set is imported.
ImportDecided(force, ignore, saved, disable_initial) ==
    force \/ (~ignore /\ saved = NULL /\ ~disable_initial)

\* The decision without the -i branch.
MainDecideUnlessSaved ==
    /\ main_pc = "decide"
    /\ utxo_set_import' = (force_utxo_import
                           \/ (db_block_checkpoint = NULL /\ ~disable_initial_utxo_import))
    /\ LET checkpoint == IF db_block_checkpoint # NULL THEN db_block_checkpoint
                         ELSE IF disable_initial_utxo_import THEN node_tip
                         ELSE pruning_point_hash
       IN fetch_pos' = checkpoint /\ start_hash' = checkpoint
    /\ main_pc' = IF utxo_set_import' THEN "import" ELSE "spawn"
    /\ UNCHANGED <<cfgVars, sigVars, peerVars, auxVars, force_utxo_import, ignore_checkpoint,
                   disable_initial_utxo_import, db_vcp_checkpoint, tdVars,
                   utxo_chunk_count, node_tip, rpc_blocks_queue, txs_queue, pbVars, ptVars,
                   pv_pc, tip_distance, res_removed, res_added, cpVars, checkpoint_queue,
                   blockTables, txTables, db_transactions_acceptances,
                   db_block_checkpoint, obsVars, passVars>>

\* start_processing, the choice of the checkpoint and of the import: -i takes
\* the pruning point, else the saved checkpoint, else the virtual parent when
\* the initial import is disabled, else the pruning point with an import.
MainDecide ==
    /\ main_pc = "decide"
    /\ utxo_set_import' = ImportDecided(force_utxo_import, ignore_checkpoint,
                                        db_block_checkpoint, disable_initial_utxo_import)
    /\ LET checkpoint == IF ignore_checkpoint THEN pruning_point_hash
                         ELSE IF db_block_checkpoint # NULL THEN db_block_checkpoint
                         ELSE IF disable_initial_utxo_import THEN node_tip
                         ELSE pruning_point_hash
       IN fetch_pos' = checkpoint /\ start_hash' = checkpoint
    /\ main_pc' = IF utxo_set_import' THEN "import" ELSE "spawn"
    /\ UNCHANGED <<cfgVars, sigVars, peerVars, auxVars, force_utxo_import, ignore_checkpoint,
                   disable_initial_utxo_import, db_vcp_checkpoint, tdVars,
                   utxo_chunk_count, node_tip, rpc_blocks_queue, txs_queue, pbVars, ptVars,
                   pv_pc, tip_distance, res_removed, res_added, cpVars, checkpoint_queue,
                   blockTables, txTables, db_transactions_acceptances,
                   db_block_checkpoint, obsVars, passVars>>

\* importer.start(), awaited by main: chunks are persisted until the set is
\* complete or a shutdown is seen.
MainImport ==
    /\ main_pc = "import"
    /\ ~shutdown_sent
    /\ PersistUtxos \/ UtxoImportRetry

MainImportReturns ==
    /\ main_pc = "import"
    /\ shutdown_sent \/ utxo_chunk_count = Len(SnapshotChunks)
    /\ main_pc' = "spawn"
    /\ UNCHANGED <<cfgVars, sigVars, peerVars, auxVars, force_utxo_import, ignore_checkpoint,
                   disable_initial_utxo_import, db_vcp_checkpoint, tdVars, importVars,
                   envVars, pbVars, ptVars, pvVars, cpVars, checkpoint_queue,
                   blockTables, txTables, db_transactions_acceptances,
                   db_block_checkpoint, obsVars, passVars>>

\* The fetcher and the stage tasks are spawned.
MainSpawn ==
    /\ main_pc = "spawn"
    /\ main_pc' = "running"
    /\ UNCHANGED <<cfgVars, sigVars, peerVars, auxVars, force_utxo_import, ignore_checkpoint,
                   disable_initial_utxo_import, db_vcp_checkpoint, tdVars, importVars,
                   envVars, pbVars, ptVars, pvVars, cpVars, checkpoint_queue,
                   blockTables, txTables, db_transactions_acceptances,
                   db_block_checkpoint, obsVars, passVars>>

\* The fetcher task, once spawned and until a shutdown.
FetcherRuns ==
    /\ main_pc = "running" /\ ~shutdown_sent /\ "exit" \notin stopped
    /\ FetchBlock

StartupConfigs == { Config(FALSE, FALSE, 1, 1, StartupLen) }

\* What a run without transaction and virtual chain processing has left once
\* it has stored the whole prefix and saved its last block as the checkpoint.
InitStoreSaved ==
    /\ node_tip = dag_end
    /\ fetch_pos = 1
    /\ start_hash = 1
    /\ db_blocks = 1..dag_end
    /\ db_block_parent = {<<b, p>> \in (1..dag_end) \X (0..dag_end) : p \in Parents(b)}
    /\ db_transactions = {} /\ db_transactions_inputs = {}
    /\ db_transactions_outputs = {} /\ db_blocks_transactions = {}
    /\ db_addresses_transactions = {} /\ db_transactions_acceptances = {}
    /\ db_block_checkpoint = dag_end
    /\ db_vcp_checkpoint = NULL
    /\ restarts = 0

\* main is about to choose the checkpoint, over an empty store or over one
\* with a saved checkpoint, under any of the import flags.
InitStartup ==
    /\ \E c \in StartupConfigs : InitConfig(c)
    /\ InitTasks
    /\ InitStore \/ InitStoreSaved
    /\ main_pc = "decide"
    /\ force_utxo_import \in BOOLEAN
    /\ ignore_checkpoint \in BOOLEAN
    /\ disable_initial_utxo_import \in BOOLEAN
    /\ peer_address = TRUE
    /\ utxo_set_import = FALSE /\ utxo_chunk_count = 0

NextStartup ==
    \/ MainDecide \/ MainImport \/ MainImportReturns \/ MainSpawn
    \/ HandleSignal
    \/ NodeGrow
    \/ FetcherRuns
    \/ SdBlocks \/ SdTransactions \/ SdVirtualChain \/ SdCheckpoints
    \/ PbReturn \/ PtReturn \/ PvReturn \/ CpReturn

SpecStartup == InitStartup /\ [][NextStartup]_vars

\* ------------------------------------------------- the importer and its peer
\* A message of the p2p protocol: its payload type and, for a ping or pong,
\* the nonce, for a chunk the index of its outpoints in SnapshotChunks.
Message(type, arg) == [type |-> type, arg |-> arg]
PeerMessages ==
    {Message(t, NULL) : t \in {"Version", "RequestAddresses", "Addresses", "Empty",
                               "DonePruningPointUtxoSetChunks",
                               "UnexpectedPruningPoint"}}
        \cup {Message("Ping", n) : n \in 1..MaxNonce}
        \cup {Message("PruningPointUtxoSetChunk", k) : k \in DOMAIN SnapshotChunks}

importerRest == <<cfgVars, auxVars, mainVars, sigVars, db_vcp_checkpoint, tdVars, utxo_set_import,
                  peer_address, envVars, pbVars, ptVars, pvVars, cpVars, checkpoint_queue,
                  blockTables, db_transactions_inputs, db_blocks_transactions,
                  db_addresses_transactions, db_block_checkpoint, obsVars, passVars>>
importTables == <<db_transactions, db_transactions_outputs, db_transactions_acceptances>>

ImporterAlive == "exit" \notin stopped
Connected == imp_pc \in {"recv", "persist", "send"}

\* The peer sends a message.
PeerSends ==
    /\ ImporterAlive /\ Connected
    /\ Len(peer_channel) < PeerQueueCap
    /\ \E m \in PeerMessages :
          /\ m.type = "PruningPointUtxoSetChunk" => utxo_chunk_count < MaxChunks
          /\ m.type = "UnexpectedPruningPoint" => failed_attempts < MaxAttempts
          /\ peer_channel' = Append(peer_channel, m)
    /\ UNCHANGED <<importerRest, importTables, imp_pc, utxo_chunk, to_send, completed,
                   next_requests, failed_attempts, utxo_chunk_count>>

\* start: one more connection, which the peer may refuse.
ImpConnect ==
    /\ ImporterAlive
    /\ imp_pc = "start" /\ ~shutdown_sent /\ ~completed /\ peer_address
    /\ \E connected \in {TRUE} \cup {failed_attempts >= MaxAttempts} :
          IF connected
          THEN /\ imp_pc' = "recv"
               /\ utxo_chunk_count' = 0 /\ next_requests' = 0
               /\ peer_channel' = << >>
               /\ UNCHANGED failed_attempts
          ELSE /\ failed_attempts' = failed_attempts + 1
               /\ UNCHANGED <<imp_pc, utxo_chunk_count, next_requests, peer_channel>>
    /\ UNCHANGED <<importerRest, importTables, utxo_chunk, to_send, completed>>

\* start: no peer address for the network, the import is skipped.
ImpSkipped ==
    /\ ImporterAlive
    /\ imp_pc = "start" /\ ~shutdown_sent /\ ~completed /\ ~peer_address
    /\ completed' = TRUE
    /\ UNCHANGED <<importerRest, importTables, imp_pc, peer_channel, utxo_chunk, to_send,
                   next_requests, failed_attempts, utxo_chunk_count>>

\* start: the loop ends on completion or shutdown.
ImpStartReturns ==
    /\ ImporterAlive
    /\ imp_pc = "start" /\ (shutdown_sent \/ completed)
    /\ imp_pc' = "done"
    /\ UNCHANGED <<importerRest, importTables, peer_channel, utxo_chunk, to_send, completed,
                   next_requests, failed_attempts, utxo_chunk_count>>

\* What receive_and_handle does on a payload: the next position, the chunk to
\* persist, the messages to send, and whether the import is complete.
Handled(m) ==
    CASE m.type = "RequestAddresses" ->
            [pc |-> "send", chunk |-> NULL, completed |-> FALSE,
             send |-> <<Message("Addresses", NULL),
                        Message("RequestPruningPointUtxoSet", NULL)>>]
      [] m.type = "PruningPointUtxoSetChunk" ->
            [pc |-> "persist", chunk |-> m.arg, completed |-> FALSE, send |-> << >>]
      [] m.type = "DonePruningPointUtxoSetChunks" ->
            [pc |-> "start", chunk |-> NULL, completed |-> TRUE, send |-> << >>]
      [] m.type = "UnexpectedPruningPoint" ->
            [pc |-> "sleep", chunk |-> NULL, completed |-> FALSE, send |-> << >>]
      [] m.type = "Ping" ->
            [pc |-> "send", chunk |-> NULL, completed |-> FALSE,
             send |-> <<Message("Pong", m.arg)>>]
      [] OTHER ->
            [pc |-> "recv", chunk |-> NULL, completed |-> FALSE, send |-> << >>]

\* receive_and_handle: the next message is received and matched.
ImpRecv ==
    /\ ImporterAlive
    /\ imp_pc = "recv" /\ ~shutdown_sent
    /\ peer_channel # << >>
    /\ LET m == Head(peer_channel)
           h == Handled(m)
       IN /\ imp_pc' = h.pc
          /\ utxo_chunk' = h.chunk
          /\ to_send' = h.send
          /\ completed' = h.completed
          /\ utxo_chunk_count' = IF m.type = "PruningPointUtxoSetChunk"
                                 THEN utxo_chunk_count + 1 ELSE utxo_chunk_count
          /\ peer_channel' = IF h.completed THEN << >> ELSE Tail(peer_channel)
    /\ UNCHANGED <<importerRest, importTables, next_requests, failed_attempts>>

\* receive_and_handle: nothing for IBD_TIMEOUT_SECONDS, or the channel closed.
ImpRecvFails ==
    /\ ImporterAlive
    /\ imp_pc = "recv" /\ ~shutdown_sent
    /\ peer_channel = << >>
    /\ failed_attempts < MaxAttempts
    /\ imp_pc' = "sleep"
    /\ UNCHANGED <<importerRest, importTables, peer_channel, utxo_chunk, to_send, completed,
                   next_requests, failed_attempts, utxo_chunk_count>>

\* receive_and_handle: the loop ends on shutdown with Err("Aborted").
ImpAborted ==
    /\ ImporterAlive
    /\ imp_pc = "recv" /\ shutdown_sent
    /\ imp_pc' = "sleep"
    /\ UNCHANGED <<importerRest, importTables, peer_channel, utxo_chunk, to_send, completed,
                   next_requests, failed_attempts, utxo_chunk_count>>

\* persist_utxos of the chunk received, and the request for more after every
\* IBD_BATCH_SIZE chunks, asking at every chunk.
ImpPersistAskingAlways ==
    /\ ImporterAlive
    /\ imp_pc = "persist"
    /\ LET outpoints == SnapshotChunks[utxo_chunk]
           up == upsert_utxos(db_transactions, db_transactions_outputs, outpoints)
       IN /\ db_transactions_acceptances' =
                insert_transaction_acceptances(db_transactions_acceptances,
                                               unique_acceptances(outpoints))
          /\ db_transactions' = up.transactions
          /\ db_transactions_outputs' = up.outputs
    /\ utxo_chunk' = NULL
    /\ to_send' = <<Message("RequestNextPruningPointUtxoSetChunk", NULL)>>
    /\ imp_pc' = "send"
    /\ UNCHANGED <<importerRest, peer_channel, completed, next_requests, failed_attempts,
                   utxo_chunk_count>>

\* persist_utxos of the chunk received, and the request for more after every
\* IBD_BATCH_SIZE chunks.
ImpPersist ==
    /\ ImporterAlive
    /\ imp_pc = "persist"
    /\ LET outpoints == SnapshotChunks[utxo_chunk]
           up == upsert_utxos(db_transactions, db_transactions_outputs, outpoints)
       IN /\ db_transactions_acceptances' =
                insert_transaction_acceptances(db_transactions_acceptances,
                                               unique_acceptances(outpoints))
          /\ db_transactions' = up.transactions
          /\ db_transactions_outputs' = up.outputs
    /\ utxo_chunk' = NULL
    /\ IF utxo_chunk_count % IBD_BATCH_SIZE = 0
       THEN /\ to_send' = <<Message("RequestNextPruningPointUtxoSetChunk", NULL)>>
            /\ imp_pc' = "send"
       ELSE /\ to_send' = << >>
            /\ imp_pc' = "recv"
    /\ UNCHANGED <<importerRest, peer_channel, completed, next_requests, failed_attempts,
                   utxo_chunk_count>>

\* adaptor.send of the next message due; an error ends receive_and_handle.
ImpSend ==
    /\ ImporterAlive
    /\ imp_pc = "send"
    /\ \E sent \in {TRUE} \cup {failed_attempts >= MaxAttempts} :
          IF sent
          THEN /\ to_send' = Tail(to_send)
               /\ next_requests' =
                    IF Head(to_send).type = "RequestNextPruningPointUtxoSetChunk"
                    THEN next_requests + 1 ELSE next_requests
               /\ imp_pc' = IF Tail(to_send) = << >> THEN "recv" ELSE "send"
          ELSE /\ to_send' = << >>
               /\ imp_pc' = "sleep"
               /\ UNCHANGED next_requests
    /\ UNCHANGED <<importerRest, importTables, peer_channel, utxo_chunk, completed,
                   failed_attempts, utxo_chunk_count>>

\* start, after an error of receive_and_handle: five seconds of sleep, the
\* peer is dropped, and the loop goes on.
ImpSleep ==
    /\ ImporterAlive
    /\ imp_pc = "sleep"
    /\ imp_pc' = "start"
    /\ peer_channel' = << >>
    /\ failed_attempts' = failed_attempts + 1
    /\ UNCHANGED <<importerRest, importTables, utxo_chunk, to_send, completed,
                   next_requests, utxo_chunk_count>>

PeerConfigs == { Config(FALSE, FALSE, 1, 1, NumBlocks) }

InitPeer ==
    /\ \E c \in PeerConfigs : InitConfig(c)
    /\ force_utxo_import = FALSE /\ ignore_checkpoint = FALSE
    /\ disable_initial_utxo_import = FALSE
    /\ peer_address \in BOOLEAN
    /\ main_pc = "import"
    /\ utxo_set_import = TRUE /\ utxo_chunk_count = 0
    /\ InitTasks
    /\ InitStore

NextPeer ==
    \/ PeerSends
    \/ ImpConnect \/ ImpSkipped \/ ImpStartReturns
    \/ ImpRecv \/ ImpRecvFails \/ ImpAborted
    \/ ImpPersist \/ ImpSend \/ ImpSleep
    \/ HandleSignal

SpecPeer == InitPeer /\ [][NextPeer]_vars

\* ------------------------------------ one signal ends every stage (C27)
TaskStep ==
    \/ SdBlocks \/ SdTransactions \/ SdVirtualChain \/ SdCheckpoints
    \/ PbReturn \/ PtReturn \/ PvReturn \/ CpReturn
OneSignalOnly == shutdown_sent /\ "exit" \notin stopped
\* A task that is retrying its push onto the full Checkpoint queue.
PushBlocked(task) ==
    /\ Len(checkpoint_queue) = CpQueueCap
    /\ \/ task = "process_blocks" /\ pb_pc = "push"
       \/ task = "process_transactions" /\ pt_pc = "push"
       \/ task = "process_virtual_chain" /\ pv_pc = "push"

\* C27: after a single shutdown signal every stage loop terminates from every
\* reachable state without a second signal, a stage pushing onto a full
\* Checkpoint queue whose consumer has stopped included: while a task has not
\* returned, some task can take a step.
C27_OneSignalStopsAll ==
    (OneSignalOnly /\ Tasks \ stopped # {}) => ENABLED TaskStep

\* One signal was sent, the coordinator has returned, and process_blocks is
\* retrying its push onto the full queue.
C27_Witness ==
    /\ OneSignalOnly
    /\ "process_checkpoints" \in stopped
    /\ "process_blocks" \notin stopped
    /\ PushBlocked("process_blocks")

\* Every task that has not returned and cannot step is retrying a push.
C27_OnlyPushesHang ==
    (OneSignalOnly /\ ~ENABLED TaskStep) =>
        \A task \in Tasks \ stopped : PushBlocked(task)


\* --------------------------------------- the UTXO import at start-up (C28)
Decides == main_pc = "decide" /\ main_pc' # "decide"
ImportRuns == main_pc' = "import"
ImportComplete == utxo_chunk_count = Len(SnapshotChunks)
\* A step of the fetcher or of a stage task, and a step of the importer.
TaskStepTaken ==
    \/ ~UNCHANGED <<rpc_blocks_queue, txs_queue, pbVars, ptVars, pv_pc, cpVars,
                    checkpoint_queue>>
    \/ stopped' # stopped /\ "exit" \notin stopped'
ImporterStepTaken == utxo_chunk_count' # utxo_chunk_count
\* The import is through, or was given up on a shutdown, before any task
\* steps, and it takes no step once main has gone on.
ImportBeforeTasks ==
    /\ TaskStepTaken =>
          /\ main_pc = "running"
          /\ utxo_set_import => ImportComplete \/ shutdown_sent
    /\ ImporterStepTaken => main_pc = "import" /\ utxo_set_import

\* C28 as stated: the import runs exactly when it is forced, or the store has
\* no saved checkpoint and the initial import is not disabled; and it is
\* through or aborted before any task is started.
C28_ImportIffForcedOrEmptyStore ==
    [][/\ Decides =>
            (ImportRuns <=>
                \/ force_utxo_import
                \/ db_block_checkpoint = NULL /\ ~disable_initial_utxo_import)
       /\ ImportBeforeTasks]_vars

\* C28: the import runs exactly when it is forced, or when no checkpoint
\* override (-i) is given, the store has no saved checkpoint and the initial
\* import is not disabled; whenever it runs it is through, or aborted by a
\* shutdown, before the fetcher or any stage task is started.
C28_ImportUnlessCheckpointGiven ==
    [][/\ Decides =>
            (ImportRuns <=>
                \/ force_utxo_import
                \/ /\ ~ignore_checkpoint
                   /\ db_block_checkpoint = NULL
                   /\ ~disable_initial_utxo_import)
       /\ Decides => (utxo_set_import' <=> ImportRuns)
       /\ ImportBeforeTasks]_vars

\* An import that was not forced is through and the Block Processor has
\* dequeued blocks.
C28_Witness ==
    /\ main_pc = "running"
    /\ utxo_set_import /\ ~force_utxo_import
    /\ ImportComplete
    /\ pb_dequeued # {}

\* -i over an empty store with the initial import enabled: nothing imported.
C28_WitnessOverride ==
    /\ main_pc = "running"
    /\ ignore_checkpoint /\ ~force_utxo_import /\ ~disable_initial_utxo_import
    /\ db_block_checkpoint = NULL
    /\ ~utxo_set_import /\ utxo_chunk_count = 0
    /\ pb_dequeued # {}

\* An import given up on a shutdown, with every task returned afterwards; and
\* a forced import over a saved checkpoint.
C28_WitnessAborted ==
    /\ main_pc = "running"
    /\ utxo_set_import /\ ~ImportComplete
    /\ shutdown_sent /\ stopped = Tasks
C28_WitnessForced ==
    /\ main_pc = "running"
    /\ force_utxo_import /\ db_block_checkpoint # NULL /\ db_blocks # {}
    /\ ImportComplete /\ utxo_set_import /\ pb_dequeued # {}


\* ------------------------------------------ one peer connection (C29)
RequestNext == Message("RequestNextPruningPointUtxoSetChunk", NULL)
RequestsDue == IF to_send = <<RequestNext>> THEN 1 ELSE 0
ChunksPersisted == IF imp_pc = "persist" THEN utxo_chunk_count - 1 ELSE utxo_chunk_count
\* One request for more per IBD_BATCH_SIZE chunks persisted, sent or due.
OneRequestPerBatch ==
    Connected => next_requests + RequestsDue = ChunksPersisted \div IBD_BATCH_SIZE
\* The request is due only right after the chunk that fills a batch.
RequestOnlyAfterBatch ==
    (Connected /\ RequestNext \in Range(to_send)) =>
        /\ to_send = <<RequestNext>>
        /\ utxo_chunk_count > 0 /\ utxo_chunk_count % IBD_BATCH_SIZE = 0
\* The importer takes the oldest message off the channel.
Receives ==
    /\ imp_pc = "recv" /\ peer_channel # << >>
    /\ peer_channel' = Tail(peer_channel) \/ (~completed /\ completed')
Received == Head(peer_channel)
\* The outpoints of chunk k are in the store.
ChunkStoredIn(k, outputs, acceptances) ==
    \A i \in DOMAIN SnapshotChunks[k] :
        LET u == SnapshotChunks[k][i]
        IN /\ \E o \in outputs :
                 /\ o.transaction_id = u.transaction_id /\ o.index = u.index
                 /\ o.amount = u.amount
           /\ \E a \in acceptances : a.transaction_id = u.transaction_id
ChunkStored(k) == ChunkStoredIn(k, db_transactions_outputs, db_transactions_acceptances)
\* A ping is answered by the pong of its nonce, sent before anything else is
\* received.
PingAnswered ==
    /\ (Receives /\ Received.type = "Ping") =>
          to_send' = <<Message("Pong", Received.arg)>> /\ imp_pc' = "send"
    /\ (imp_pc = "send" /\ peer_channel # << >>) => peer_channel' # Tail(peer_channel)
\* A chunk received is persisted before the next message is received.
ChunkPersistedFirst ==
    /\ (Receives /\ Received.type = "PruningPointUtxoSetChunk") =>
          imp_pc' = "persist" /\ utxo_chunk' = Received.arg
    /\ Receives => utxo_chunk = NULL /\ to_send = << >>
    /\ (imp_pc = "persist" /\ imp_pc' # "persist") =>
          /\ ChunkStoredIn(utxo_chunk, db_transactions_outputs',
                           db_transactions_acceptances')
          /\ imp_pc' \in {"recv", "send"}
\* receive_and_handle returns Ok on DonePruningPointUtxoSetChunks only.
SuccessOnlyOnDone ==
    (~completed /\ completed' /\ peer_address) =>
        Receives /\ Received.type = "DonePruningPointUtxoSetChunks"

\* C29: on one peer connection the importer sends
\* RequestNextPruningPointUtxoSetChunk once after every 99th chunk and at no
\* other time, answers every ping with the pong of the same nonce, persists
\* every chunk before it handles the next message, and reports success only on
\* DonePruningPointUtxoSetChunks.
C29_ImporterProtocol ==
    /\ [](OneRequestPerBatch /\ RequestOnlyAfterBatch)
    /\ [][PingAnswered /\ ChunkPersistedFirst /\ SuccessOnlyOnDone]_vars

\* Two batches of chunks were received, two requests sent, and the import
\* completed on the peer's Done.
C29_Witness ==
    /\ completed /\ peer_address
    /\ utxo_chunk_count >= 2 * IBD_BATCH_SIZE
    /\ next_requests = 2
    /\ ChunkStored(1) /\ ChunkStored(2)

\* A ping in the middle of a batch is being answered.
C29_WitnessPing ==
    /\ imp_pc = "send" /\ to_send = <<Message("Pong", MaxNonce)>>
    /\ utxo_chunk_count > IBD_BATCH_SIZE
    /\ utxo_chunk_count % IBD_BATCH_SIZE # 0

\* ------------------------------------------------- import attempts (C30)
\* C30: a failed import is retried at most IBD_RETRIES = 10 times, after
\* which the importer stops retrying: no connection is open, and none is
\* opened, once more than IBD_RETRIES attempts have failed.
C30_AtMostTenRetries ==
    failed_attempts > IBD_RETRIES => ~Connected /\ ~ENABLED ImpConnect

\* After eleven failed attempts the importer is receiving chunks on one more
\* connection.
C30_Witness ==
    /\ failed_attempts > IBD_RETRIES
    /\ ~shutdown_sent
    /\ Connected /\ utxo_chunk_count > 0

\* The importer goes on unless the import completed or a shutdown was sent.
C30_RetriesUntilCompleted ==
    (imp_pc = "start" /\ ImporterAlive /\ peer_address /\ ~completed /\ ~shutdown_sent)
        => ENABLED ImpConnect


\* ------------------------------------------------------------------ pruner
\* The store the pruner looks at: what the pipeline has written for the blocks
\* PruneFirst..PruneTip, after an import of the UTXO set or without one, the
\* virtual chain followed up to PruneTip.
PruneBlocks == [k \in 1..(PruneTip - PruneFirst + 1) |-> PruneFirst + k - 1]
PruneChain == SelectSeq2(PruneBlocks, Range(PruneBlocks) \ {BlockR})

RECURSIVE BufferBlocks(_, _, _)
BufferBlocks(bs, buffered, cache) ==
    IF bs = << >> THEN buffered
    ELSE LET buf == BufferTxs(BlockTxs(Head(bs)), Head(bs), buffered, cache)
         IN BufferBlocks(Tail(bs), buf.transactions, buf.tx_id_cache)

RECURSIVE ImportedUtxos(_, _)
ImportedUtxos(chunks, st) ==
    IF chunks = << >> THEN st
    ELSE LET up == upsert_utxos(st.transactions, st.outputs, Head(chunks))
         IN ImportedUtxos(Tail(chunks),
                [transactions |-> up.transactions, outputs |-> up.outputs,
                 acceptances |-> insert_transaction_acceptances(st.acceptances,
                                     unique_acceptances(Head(chunks)))])

StoreOf(blocks, chain, imported) ==
    LET imp == IF imported
               THEN ImportedUtxos(SnapshotChunks,
                        [transactions |-> {}, outputs |-> {}, acceptances |-> {}])
               ELSE [transactions |-> {}, outputs |-> {}, acceptances |-> {}]
        txs == BufferBlocks(blocks, << >>, {})
        tx_outputs == BufferedOutputs(txs)
        raw == BufferedInputs(txs)
        tx_inputs == [k \in DOMAIN raw |-> PreResolve(tx_outputs, raw[k])]
        stored_txs == insert_transactions(imp.transactions, txs)
        stored_inputs == insert_transaction_inputs(enable_transactions_inputs_resolve,
                             {}, imp.outputs, tx_inputs)
        stored_outputs == insert_transaction_outputs(imp.outputs, tx_outputs)
    IN [blocks |-> insert_blocks({}, blocks),
        block_parent |-> insert_block_parents({},
            Flatten([k \in DOMAIN blocks |-> map_block_parents(blocks[k])])),
        transactions |-> stored_txs,
        transactions_inputs |-> stored_inputs,
        transactions_outputs |-> stored_outputs,
        blocks_transactions |-> insert_block_transactions({},
            Flatten([k \in DOMAIN blocks |->
                [j \in DOMAIN BlockTxs(blocks[k]) |->
                    map_block_transaction(BlockTxs(blocks[k])[j], blocks[k])]])),
        addresses_transactions |->
            insert_address_transactions_from_inputs(
                insert_address_transactions({},
                    Flatten([k \in DOMAIN txs |-> map_transaction_outputs_address(txs[k])])),
                stored_txs, stored_inputs, stored_outputs,
                {txs[k].transaction_id : k \in DOMAIN txs}),
        transactions_acceptances |->
            accept_transactions(imp.acceptances,
                [k \in DOMAIN chain |->
                    [accepting_block_hash |-> chain[k],
                     accepted_transaction_ids |-> SortedSeq(AcceptedBy(chain[k]))]])]

PruneStore(imported) == StoreOf(PruneBlocks, PruneChain, imported)

\* The tables at hand, as one record.
Store ==
    [blocks |-> db_blocks, block_parent |-> db_block_parent,
     transactions |-> db_transactions,
     transactions_inputs |-> db_transactions_inputs,
     transactions_outputs |-> db_transactions_outputs,
     blocks_transactions |-> db_blocks_transactions,
     addresses_transactions |-> db_addresses_transactions,
     transactions_acceptances |-> db_transactions_acceptances]

StoreIs(st) ==
    /\ db_blocks = st.blocks /\ db_block_parent = st.block_parent
    /\ db_transactions = st.transactions
    /\ db_transactions_inputs = st.transactions_inputs
    /\ db_transactions_outputs = st.transactions_outputs
    /\ db_blocks_transactions = st.blocks_transactions
    /\ db_addresses_transactions = st.addresses_transactions
    /\ db_transactions_acceptances = st.transactions_acceptances

StoreBecomes(st) ==
    /\ db_blocks' = st.blocks /\ db_block_parent' = st.block_parent
    /\ db_transactions' = st.transactions
    /\ db_transactions_inputs' = st.transactions_inputs
    /\ db_transactions_outputs' = st.transactions_outputs
    /\ db_blocks_transactions' = st.blocks_transactions
    /\ db_addresses_transactions' = st.addresses_transactions
    /\ db_transactions_acceptances' = st.transactions_acceptances

storeVars == <<blockTables, txTables, db_transactions_acceptances>>

\* ------------------------------------------------------- the prune queries
\* DELETE FROM block_parent bp USING blocks b
\*   WHERE bp.block_hash = b.hash AND b.timestamp < $1
prune_block_parent_none(st, block_time_lt) == st
prune_block_parent(st, block_time_lt) ==
    [st EXCEPT !.block_parent =
        {bp \in @ : ~ (bp[1] \in st.blocks /\ timestamp(bp[1]) < block_time_lt)}]

prune_blocks_transactions_using_blocks(st, block_time_lt) ==
    [st EXCEPT !.blocks_transactions =
        {bt \in @ : ~ (bt[1] \in st.blocks /\ timestamp(bt[1]) < block_time_lt)}]

prune_transactions_acceptances_using_blocks(st, block_time_lt) ==
    [st EXCEPT !.transactions_acceptances =
        {ta \in @ : ~ (ta.block_hash \in st.blocks
                        /\ timestamp(ta.block_hash) < block_time_lt)}]

\* DELETE FROM blocks WHERE timestamp < $1
prune_blocks(st, block_time_lt) ==
    [st EXCEPT !.blocks = {b \in @ : ~ (timestamp(b) < block_time_lt)}]

\* the ids of the transactions rows with block_time < $1
ExpiredTxIds(txs, block_time_lt) ==
    {t.transaction_id : t \in {x \in txs : x.block_time < block_time_lt}}

prune_blocks_transactions_using_transactions(st, block_time_lt) ==
    [st EXCEPT !.blocks_transactions =
        {bt \in @ : bt[2] \notin ExpiredTxIds(st.transactions, block_time_lt)}]

\* Inside one store transaction: the outputs of the expired transactions, then
\* the outputs that inputs stored for the expired transactions' outpoints spend.
prune_unspendable_transactions_outputs(st, block_time_lt) ==
    LET relevant == ExpiredTxIds(st.transactions, block_time_lt)
        first == {o \in st.transactions_outputs : o.transaction_id \notin relevant}
        relevant_inputs ==
            {<<i.previous_outpoint_hash, i.previous_outpoint_index>> :
                i \in {x \in st.transactions_inputs : x.previous_outpoint_hash \in relevant}}
    IN [st EXCEPT !.transactions_outputs =
            {o \in first : <<o.transaction_id, o.index>> \notin relevant_inputs}]

prune_transactions_inputs(st, block_time_lt) ==
    [st EXCEPT !.transactions_inputs =
        {ti \in @ : ti.transaction_id \notin ExpiredTxIds(st.transactions, block_time_lt)}]

prune_transactions_acceptances_using_transactions(st, block_time_lt) ==
    [st EXCEPT !.transactions_acceptances =
        {ta \in @ : ta.transaction_id \notin ExpiredTxIds(st.transactions, block_time_lt)}]

\* DELETE FROM addresses_transactions WHERE block_time < $1
prune_addresses_transactions(st, block_time_lt) ==
    [st EXCEPT !.addresses_transactions = {r \in @ : ~ (r.block_time < block_time_lt)}]

\* scripts_transactions holds no row while the mapping kind is Address.
prune_scripts_transactions(st, block_time_lt) == st

\* rows_affected of a statement, or the sum over the statements of a query
RowsIn(st) ==
    Cardinality(st.blocks) + Cardinality(st.block_parent)
    + Cardinality(st.transactions) + Cardinality(st.transactions_inputs)
    + Cardinality(st.transactions_outputs) + Cardinality(st.blocks_transactions)
    + Cardinality(st.addresses_transactions) + Cardinality(st.transactions_acceptances)
rows_affected(before, after) == RowsIn(before) - RowsIn(after)

\* prune_transactions: the statements of the function, run one after another
\* inside the store transaction tx (its view of the tables is tx.st).  The ids
\* are bound in chunks of BATCH_SIZE = 10_000, more than the stores looked at
\* hold, so every loop is one statement.
PruneTxPhases == 6
OutpointsOf(inputs) ==
    {<<i.previous_outpoint_hash, i.previous_outpoint_index>> : i \in inputs}
\* possibly_spent_txids: the ids of the spent outpoints, whatever is left of
\* their outputs.
possibly_spent_txids(spent_tx_outputs, outputs) == {p[1] : p \in spent_tx_outputs}
\* fully_spent_txids: those among them that have no output row left.
fully_spent_txids(spent_tx_outputs, outputs) ==
    LET possibly == {p[1] : p \in spent_tx_outputs}
        unspent_txids == {o.transaction_id : o \in
                             {x \in outputs : x.transaction_id \in possibly}}
    IN possibly \ unspent_txids

prune_transactions_phase(tx) ==
    LET st == tx.st
    IN CASE tx.phase = 0 ->
            \* DELETE FROM transactions WHERE block_time < $1 RETURNING
            \* transaction_id, and the ids among them that have an acceptance row
            LET expired == ExpiredTxIds(st.transactions, tx.block_time_lt)
                accepted == {ta.transaction_id : ta \in
                                {x \in st.transactions_acceptances :
                                     x.transaction_id \in expired}}
            IN [tx EXCEPT !.phase = 1,
                          !.st.transactions =
                              {t \in @ : ~ (t.block_time < tx.block_time_lt)},
                          !.expired_txids = expired,
                          !.accepted_txids = accepted,
                          !.rejected_txids = expired \ accepted]
         [] tx.phase = 1 ->
            [tx EXCEPT !.phase = 2,
                       !.st.transactions_inputs =
                           {i \in @ : i.transaction_id \notin tx.rejected_txids}]
         [] tx.phase = 2 ->
            [tx EXCEPT !.phase = 3,
                       !.st.transactions_outputs =
                           {o \in @ : o.transaction_id \notin tx.rejected_txids}]
         [] tx.phase = 3 ->
            \* DELETE FROM transactions_inputs ... RETURNING previous_outpoint_*
            [tx EXCEPT !.phase = 4,
                       !.st.transactions_inputs =
                           {i \in @ : i.transaction_id \notin tx.accepted_txids},
                       !.spent_tx_outputs =
                           OutpointsOf({i \in st.transactions_inputs :
                                           i.transaction_id \in tx.accepted_txids})]
         [] tx.phase = 4 ->
            [tx EXCEPT !.phase = 5,
                       !.st.transactions_outputs =
                           {o \in @ : <<o.transaction_id, o.index>>
                                          \notin tx.spent_tx_outputs}]
         [] OTHER ->
            \* the possibly spent ids that have no output left, and their
            \* acceptance rows
            [tx EXCEPT !.phase = 6,
                       !.st.transactions_acceptances =
                           {ta \in @ : ta.transaction_id \notin
                               fully_spent_txids(tx.spent_tx_outputs,
                                                 st.transactions_outputs)}]

\* pool.begin() of prune_transactions
BeginTx(st, block_time_lt) ==
    [phase |-> 0, st |-> st, block_time_lt |-> block_time_lt,
     expired_txids |-> {}, accepted_txids |-> {}, rejected_txids |-> {},
     spent_tx_outputs |-> {}]

RECURSIVE RunPhases(_)
RunPhases(tx) == IF tx.phase = PruneTxPhases THEN tx
                 ELSE RunPhases(prune_transactions_phase(tx))

\* prune_transactions as a whole, committed
prune_transactions(st, block_time_lt) == RunPhases(BeginTx(st, block_time_lt)).st

\* ------------------------------------------------------------- prune, pruner
\* The steps of prune in the order of the function, each with the field of
\* PruningConfig that enables it.
Steps ==
    << [name |-> "block_parent", field |-> "retention_block_parent"],
       [name |-> "blocks_transactions", field |-> "retention_blocks_transactions"],
       [name |-> "blocks", field |-> "retention_blocks"],
       [name |-> "transactions_acceptances",
        field |-> "retention_transactions_acceptances"],
       [name |-> "spent transactions_outputs",
        field |-> "retention_transactions_outputs"],
       [name |-> "transactions_inputs", field |-> "retention_transactions_inputs"],
       [name |-> "transactions", field |-> "retention_transactions"],
       [name |-> "addresses_transactions",
        field |-> "retention_addresses_transactions"],
       [name |-> "scripts_transactions", field |-> "retention_scripts_transactions"] >>
StepOf(name) == CHOOSE k \in DOMAIN Steps : Steps[k].name = name
TableFields == {Steps[k].field : k \in DOMAIN Steps}

\* Utc::now() when the cron job fires: the indexer may have been down a while.
PruneNow == timestamp(PruneTip) + 3 * 1000

\* specific.or(default), for every table (pruner)
Resolved(config) ==
    [f \in DOMAIN config |-> IF config[f] # None THEN config[f] ELSE config["retention"]]

PrAt(position) == pr_pc = [at |-> position, step |-> 0]
PrAtStep(k) == pr_pc = [at |-> "step", step |-> k]
PrGoes(position) == pr_pc' = [at |-> position, step |-> 0]
PrGoesToStep(k) ==
    pr_pc' = IF k > Len(Steps) THEN [at |-> "report", step |-> 0]
             ELSE [at |-> "step", step |-> k]

PrunerAlive == "exit" \notin stopped
retention_of(k) == pruning_config[Steps[k].field]
\* common_start_time.sub(retention), computed for a step that is enabled
step_pruning_point(k) ==
    IF retention_of(k) = None THEN 0 ELSE common_start_time - retention_of(k)[1]

prunerRest == <<cfgVars, sigVars, mainVars, peerVars, filterVars, cacheVars,
                db_vcp_checkpoint, tdVars, importVars, envVars, pbVars, ptVars, pvVars,
                cpVars, checkpoint_queue, db_block_checkpoint, obsVars, passVars>>

\* pruner: the retentions are resolved and the job is scheduled.
Pruner ==
    /\ PrunerAlive /\ PrAt("start")
    /\ pruning_config' = Resolved(pruning_config)
    /\ PrGoes("idle")
    /\ UNCHANGED <<common_start_time, step_errors, pr_results, completed_successfully,
                   pr_tx, store_before, storeVars, prunerRest>>

\* The cron job fires: prune starts and resets the results of the metrics.
PrStart ==
    /\ PrunerAlive /\ PrAt("idle")
    /\ common_start_time' = PruneNow
    /\ step_errors' = 0
    /\ pr_results' = {}
    /\ store_before' = Store
    /\ PrGoesToStep(1)
    /\ UNCHANGED <<pruning_config, completed_successfully, pr_tx, storeVars, prunerRest>>

\* if !run.load(Ordering::Relaxed) { return; }
PrReturn ==
    /\ PrunerAlive /\ pr_pc.at = "step" /\ pr_tx = None
    /\ shutdown_sent
    /\ PrGoes("returned")
    /\ UNCHANGED <<pruning_config, common_start_time, step_errors, pr_results,
                   completed_successfully, pr_tx, store_before, storeVars, prunerRest>>

\* A step whose retention is None is passed over.
PrSkip ==
    /\ PrunerAlive /\ pr_pc.at = "step" /\ pr_tx = None
    /\ ~shutdown_sent
    /\ retention_of(pr_pc.step) = None
    /\ PrGoesToStep(pr_pc.step + 1)
    /\ UNCHANGED <<pruning_config, common_start_time, step_errors, pr_results,
                   completed_successfully, pr_tx, store_before, storeVars, prunerRest>>

\* What prune_step leaves under the step's name in db_pruner.results.
StepResult(name, success, rows) ==
    [name |-> name, success |-> success, rows_deleted |-> rows]
Recorded(results, r) == {x \in results : x.name # r.name} \cup {r}

\* The step is enabled; the run flag is not looked at.
StartsUnchecked(k) ==
    /\ PrunerAlive /\ PrAtStep(k) /\ pr_tx = None
    /\ retention_of(k) # None
\* The shutdown check has passed and the step is enabled.
Starts(k) ==
    /\ PrunerAlive /\ PrAtStep(k) /\ pr_tx = None
    /\ ~shutdown_sent
    /\ retention_of(k) # None

\* prune_step around a query that is one statement: it succeeds, leaving the
\* tables as after.
PruneStep(k, after) ==
    /\ Starts(k)
    /\ StoreBecomes(after)
    /\ pr_results' = Recorded(pr_results,
                        StepResult(Steps[k].name, Some(TRUE),
                                   Some(rows_affected(Store, after))))
    /\ PrGoesToStep(k + 1)
    /\ UNCHANGED <<pruning_config, common_start_time, step_errors,
                   completed_successfully, pr_tx, store_before, prunerRest>>

\* prune_step around a query that returns Err: nothing is deleted, the error
\* is counted and prune goes on.
PrStepAbortsRun ==
    /\ \E k \in DOMAIN Steps :
          /\ Starts(k)
          /\ pr_results' = Recorded(pr_results,
                              StepResult(Steps[k].name, Some(FALSE), None))
          /\ PrGoes("done")
    /\ step_errors' = step_errors + 1
    /\ completed_successfully' = Some(FALSE)
    /\ UNCHANGED <<pruning_config, common_start_time, pr_tx, store_before,
                   storeVars, prunerRest>>
PrStepFails ==
    /\ step_errors < MaxStepErrors
    /\ \E k \in DOMAIN Steps :
          /\ Starts(k)
          /\ pr_results' = Recorded(pr_results,
                              StepResult(Steps[k].name, Some(FALSE), None))
          /\ PrGoesToStep(k + 1)
    /\ step_errors' = step_errors + 1
    /\ UNCHANGED <<pruning_config, common_start_time, completed_successfully,
                   pr_tx, store_before, storeVars, prunerRest>>

PrBlockParent ==
    PruneStep(StepOf("block_parent"),
              prune_block_parent(Store, step_pruning_point(StepOf("block_parent"))))

\* The client's prune_blocks_transactions is one of the two queries of
\* delete.rs on that table.
PrBlocksTransactions ==
    LET k == StepOf("blocks_transactions")
    IN \E after \in {prune_blocks_transactions_using_blocks(Store, step_pruning_point(k)),
                     prune_blocks_transactions_using_transactions(Store,
                                                                  step_pruning_point(k))} :
          PruneStep(k, after)

PrBlocks ==
    PruneStep(StepOf("blocks"), prune_blocks(Store, step_pruning_point(StepOf("blocks"))))

\* The client's prune_transactions_acceptances is one of the two queries of
\* delete.rs on that table.
PrTransactionsAcceptances ==
    LET k == StepOf("transactions_acceptances")
    IN \E after \in {prune_transactions_acceptances_using_blocks(Store,
                                                                 step_pruning_point(k)),
                     prune_transactions_acceptances_using_transactions(Store,
                                                                 step_pruning_point(k))} :
          PruneStep(k, after)

PrSpentTransactionsOutputs ==
    LET k == StepOf("spent transactions_outputs")
    IN PruneStep(k, prune_unspendable_transactions_outputs(Store, step_pruning_point(k)))

PrTransactionsInputs ==
    LET k == StepOf("transactions_inputs")
    IN PruneStep(k, prune_transactions_inputs(Store, step_pruning_point(k)))

PrAddressesTransactions ==
    LET k == StepOf("addresses_transactions")
    IN PruneStep(k, prune_addresses_transactions(Store, step_pruning_point(k)))

PrScriptsTransactions ==
    LET k == StepOf("scripts_transactions")
    IN PruneStep(k, prune_scripts_transactions(Store, step_pruning_point(k)))

\* The transactions step: prune_step records the step as started and
\* prune_transactions opens its store transaction.
PrTxBegin ==
    LET k == StepOf("transactions")
    IN /\ Starts(k)
       /\ pr_tx' = Some(BeginTx(Store, step_pruning_point(k)))
       /\ pr_results' = Recorded(pr_results, StepResult(Steps[k].name, None, None))
       /\ UNCHANGED <<pruning_config, pr_pc, common_start_time, step_errors,
                      completed_successfully, store_before, storeVars, prunerRest>>

\* The next statement of prune_transactions, on the tables themselves.
PrTxStatementAutocommit ==
    /\ PrunerAlive /\ pr_tx # None /\ pr_tx[1].phase < PruneTxPhases
    /\ pr_tx' = Some(prune_transactions_phase(pr_tx[1]))
    /\ StoreBecomes(pr_tx'[1].st)
    /\ UNCHANGED <<pruning_config, pr_pc, common_start_time, step_errors, pr_results,
                   completed_successfully, store_before, prunerRest>>
\* The next statement of prune_transactions, inside the store transaction.
PrTxStatement ==
    /\ PrunerAlive /\ pr_tx # None /\ pr_tx[1].phase < PruneTxPhases
    /\ pr_tx' = Some(prune_transactions_phase(pr_tx[1]))
    /\ UNCHANGED <<pruning_config, pr_pc, common_start_time, step_errors, pr_results,
                   completed_successfully, store_before, storeVars, prunerRest>>

\* tx.commit(), and prune_step records the rows deleted.
PrTxCommit ==
    /\ PrunerAlive /\ pr_tx # None /\ pr_tx[1].phase = PruneTxPhases
    /\ StoreBecomes(pr_tx[1].st)
    /\ pr_results' = Recorded(pr_results,
                        StepResult("transactions", Some(TRUE),
                                   Some(rows_affected(Store, pr_tx[1].st))))
    /\ pr_tx' = None
    /\ PrGoesToStep(StepOf("transactions") + 1)
    /\ UNCHANGED <<pruning_config, common_start_time, step_errors,
                   completed_successfully, store_before, prunerRest>>

\* A statement of prune_transactions, or its commit, returns Err: the store
\* transaction is dropped, which rolls it back.
PrTxFails ==
    /\ step_errors < MaxStepErrors
    /\ PrunerAlive /\ pr_tx # None
    /\ pr_tx' = None
    /\ pr_results' = Recorded(pr_results, StepResult("transactions", Some(FALSE), None))
    /\ step_errors' = step_errors + 1
    /\ PrGoesToStep(StepOf("transactions") + 1)
    /\ UNCHANGED <<pruning_config, common_start_time, completed_successfully,
                   store_before, storeVars, prunerRest>>

\* The end of prune: the outcome goes to the metrics.
PrReport ==
    /\ PrunerAlive /\ PrAt("report")
    /\ completed_successfully' = Some(step_errors = 0)
    /\ PrGoes("done")
    /\ UNCHANGED <<pruning_config, common_start_time, step_errors, pr_results, pr_tx,
                   store_before, storeVars, prunerRest>>

\* The settings the pruner is looked at under: a global retention, and a
\* retention of their own for at most MaxOverrides tables.
Retentions == {RetentionShort, RetentionMid, RetentionLong}
PruneConfigs ==
    UNION {{[f \in TableFields \cup {"retention"} |->
                IF f = "retention" THEN default
                ELSE IF f \in S THEN Some(v[f]) ELSE None] : v \in [S -> Retentions]} :
           S \in {T \in SUBSET TableFields : Cardinality(T) <= MaxOverrides},
           default \in {None} \cup {Some(r) : r \in Retentions}}

PruneSettings == Config(FALSE, FALSE, BatchSize, TxBatchSize, PruneTip)

\* The indexer has come up over the store of an earlier run, whose last saved
\* checkpoint is BlockS2; the node has nothing new, and the pruner task starts.
InitPrune ==
    /\ InitSettings(PruneSettings)
    /\ FilterOff /\ CacheOff
    /\ InitTasks
    /\ force_utxo_import = FALSE /\ ignore_checkpoint = FALSE
    /\ peer_address = TRUE /\ main_pc = "running"
    /\ utxo_set_import \in BOOLEAN
    /\ disable_initial_utxo_import = ~utxo_set_import
    /\ utxo_chunk_count = (IF utxo_set_import THEN Len(SnapshotChunks) ELSE 0)
    /\ StoreIs(PruneStore(utxo_set_import))
    /\ node_tip = PruneTip /\ fetch_pos = PruneTip + 1
    /\ start_hash = BlockS2
    /\ db_block_checkpoint = BlockS2
    /\ db_vcp_checkpoint = NULL
    /\ restarts = 0
    /\ pruning_config \in PruneConfigs
    /\ pr_pc = [at |-> "start", step |-> 0]
    /\ common_start_time = 0 /\ step_errors = 0
    /\ pr_results = {} /\ completed_successfully = None
    /\ pr_tx = None /\ store_before = NULL

NextPrune ==
    \/ Pruner \/ PrStart \/ PrReturn \/ PrSkip \/ PrStepFails
    \/ PrBlockParent \/ PrBlocksTransactions \/ PrBlocks \/ PrTransactionsAcceptances
    \/ PrSpentTransactionsOutputs \/ PrTransactionsInputs
    \/ PrTxBegin \/ PrTxStatement \/ PrTxCommit \/ PrTxFails
    \/ PrAddressesTransactions \/ PrScriptsTransactions
    \/ PrReport
    \/ HandleSignal

SpecPrune == InitPrune /\ [][NextPrune]_vars


\* ------------------------------------------------------------ C31
\* The run has reached the end of prune.
RunEnded == PrAt("done")
EnabledSteps == {k \in DOMAIN Steps : retention_of(k) # None}
\* Every step is enabled, with one cutoff for all, and none has failed.
UniformRun ==
    /\ EnabledSteps = DOMAIN Steps
    /\ \A j, k \in DOMAIN Steps : retention_of(j) = retention_of(k)
    /\ step_errors = 0
\* The newest cutoff among the enabled steps.
NewestCutoff ==
    IF EnabledSteps = {} THEN 0
    ELSE step_pruning_point(CHOOSE k \in EnabledSteps :
            \A j \in EnabledSteps : step_pruning_point(j) <= step_pruning_point(k))

DeletedBlocks == store_before.blocks \ db_blocks
DeletedTxIds ==
    {t.transaction_id : t \in store_before.transactions}
        \ {t.transaction_id : t \in db_transactions}
\* block_time of a transaction the run found stored; what came with the
\* snapshot or before the start block has none.
TxTime(id) ==
    LET rows == {t \in store_before.transactions : t.transaction_id = id}
    IN IF rows = {} THEN 0 ELSE (CHOOSE t \in rows : TRUE).block_time

NoParentOfDeletedBlock == \A bp \in db_block_parent : bp[1] \notin DeletedBlocks
NoEdgeOfDeleted ==
    \A bt \in db_blocks_transactions :
        bt[1] \notin DeletedBlocks /\ bt[2] \notin DeletedTxIds
NoAcceptanceOfDeleted ==
    \A ta \in db_transactions_acceptances :
        ta.block_hash \notin DeletedBlocks /\ ta.transaction_id \notin DeletedTxIds

\* Every row the run has deleted is older than cutoff.
NothingNewerDeleted(cutoff) ==
    /\ \A b \in DeletedBlocks : timestamp(b) < cutoff
    /\ \A bp \in store_before.block_parent \ db_block_parent : timestamp(bp[1]) < cutoff
    /\ \A bt \in store_before.blocks_transactions \ db_blocks_transactions :
          timestamp(bt[1]) < cutoff
    /\ \A t \in store_before.transactions \ db_transactions : t.block_time < cutoff
    /\ \A i \in store_before.transactions_inputs \ db_transactions_inputs :
          TxTime(i.transaction_id) < cutoff
    /\ \A o \in store_before.transactions_outputs \ db_transactions_outputs :
          TxTime(o.transaction_id) < cutoff
    /\ \A ta \in store_before.transactions_acceptances \ db_transactions_acceptances :
          TxTime(ta.transaction_id) < cutoff
    /\ \A r \in store_before.addresses_transactions \ db_addresses_transactions :
          r.block_time < cutoff

\* C31 (as stated): after a prune run no block_parent, blocks_transactions or
\* transactions_acceptances row remains that references a block or a
\* transaction the run has deleted, and no row newer than the cutoff has been
\* deleted from any table.
C31_PrunerSafety ==
    RunEnded =>
        /\ NoParentOfDeletedBlock /\ NoEdgeOfDeleted /\ NoAcceptanceOfDeleted
        /\ NothingNewerDeleted(NewestCutoff)

\* C31 (amended): after a run in which every step is enabled with one cutoff
\* and none has failed, no block_parent and no blocks_transactions row remains
\* that references a block or a transaction the run has deleted; after any
\* run, no row newer than the newest cutoff of the enabled steps has been
\* deleted from any table.
C31_EdgesOfUniformRun ==
    RunEnded =>
        /\ UniformRun => NoParentOfDeletedBlock /\ NoEdgeOfDeleted
        /\ NothingNewerDeleted(NewestCutoff)

\* A uniform run has ended that has deleted blocks and transactions, and an
\* acceptance row of a deleted transaction is still stored.
C31_Witness ==
    /\ RunEnded /\ UniformRun
    /\ DeletedBlocks # {} /\ DeletedTxIds # {}
    /\ db_blocks # {}
    /\ ~NoAcceptanceOfDeleted

\* A run with a retention for the blocks alone has ended and has left the
\* parent rows of the blocks it deleted.
C31_WitnessPerTable ==
    /\ RunEnded /\ step_errors = 0
    /\ EnabledSteps = {StepOf("blocks")}
    /\ ~NoParentOfDeletedBlock


\* ------------------------------------------------------------ C32
\* The latest saved checkpoint is a block older than the cutoff of the
\* transactions step.
CheckpointOlderThanCutoff ==
    LET k == StepOf("transactions")
    IN /\ retention_of(k) # None
       /\ timestamp(db_block_checkpoint) < step_pruning_point(k)

\* C32: the pruner does not run the transactions step when the latest saved
\* checkpoint is older than that step's cutoff: the step then deletes no
\* transaction, input, output or acceptance row.
C32_TransactionsStepRefused ==
    [][(PrAtStep(StepOf("transactions")) /\ CheckpointOlderThanCutoff)
          => /\ db_transactions' = db_transactions
             /\ db_transactions_inputs' = db_transactions_inputs
             /\ db_transactions_outputs' = db_transactions_outputs
             /\ db_transactions_acceptances' = db_transactions_acceptances]_vars

\* The transactions step has committed under a cutoff newer than the saved
\* checkpoint, and transactions newer than the checkpoint are gone.
C32_Witness ==
    /\ pr_pc.at = "step" /\ pr_pc.step = StepOf("transactions") + 1
    /\ CheckpointOlderThanCutoff
    /\ \E t \in store_before.transactions \ db_transactions :
          t.block_time > timestamp(db_block_checkpoint)


\* ------------------------------------------------------------ C33
\* prune_transactions has run its statements and is about to commit: Store is
\* what it found, pr_tx[1].st what it leaves.
AtCommit == pr_tx # None /\ pr_tx[1].phase = PruneTxPhases
PassCutoff == pr_tx[1].block_time_lt
ExpiredIn(st, id) ==
    \E t \in st.transactions : t.transaction_id = id /\ t.block_time < PassCutoff
AcceptedIn(st, id) == \E ta \in st.transactions_acceptances : ta.transaction_id = id
OutputsOf(st, id) == {o \in st.transactions_outputs : o.transaction_id = id}
InputsOf(st, id) == {i \in st.transactions_inputs : i.transaction_id = id}
\* the stored inputs of accepted transactions that spend output o
Spenders(st, o) ==
    {i \in st.transactions_inputs :
        /\ i.previous_outpoint_hash = o.transaction_id
        /\ i.previous_outpoint_index = o.index
        /\ AcceptedIn(st, i.transaction_id)}
ExpiredSpenders(st, o) == {i \in Spenders(st, o) : ExpiredIn(st, i.transaction_id)}
\* an accepted transaction below the cutoff, all of whose outputs are spent
FullySpentExpired(st, id) ==
    /\ ExpiredIn(st, id) /\ AcceptedIn(st, id)
    /\ OutputsOf(st, id) # {}
    /\ \A o \in OutputsOf(st, id) : Spenders(st, o) # {}
RemovedWhole(st, id) ==
    /\ \A t \in st.transactions : t.transaction_id # id
    /\ InputsOf(st, id) = {} /\ OutputsOf(st, id) = {}
    /\ ~AcceptedIn(st, id)
StoredTxIds == {t.transaction_id : t \in db_transactions}

\* C33 (as stated): a pruning pass removes an accepted transaction below the
\* cutoff all of whose outputs have been spent, with all its inputs, all its
\* outputs and its acceptance row, whatever the block_time of the spenders.
C33_FullySpentRemoved ==
    AtCommit =>
        \A id \in StoredTxIds :
            FullySpentExpired(Store, id) => RemovedWhole(pr_tx[1].st, id)

\* C33 (amended): for an accepted transaction X below the cutoff a pruning
\* pass removes X and all inputs of X; it removes an output of X exactly when
\* an accepted transaction that is itself below the cutoff spends it; and it
\* removes X's acceptance row exactly when such a transaction spends an output
\* of X and no output row of X is left.
C33_SpentByExpiredRemoved ==
    AtCommit =>
        \A id \in StoredTxIds :
            (ExpiredIn(Store, id) /\ AcceptedIn(Store, id)) =>
                LET after == pr_tx[1].st
                    spent_in_pass ==
                        \E i \in Store.transactions_inputs :
                            /\ i.previous_outpoint_hash = id
                            /\ AcceptedIn(Store, i.transaction_id)
                            /\ ExpiredIn(Store, i.transaction_id)
                IN /\ \A t \in after.transactions : t.transaction_id # id
                   /\ InputsOf(after, id) = {}
                   /\ \A o \in OutputsOf(Store, id) :
                         (o \notin after.transactions_outputs)
                             <=> (ExpiredSpenders(Store, o) # {})
                   /\ (~AcceptedIn(after, id))
                         <=> (spent_in_pass /\ OutputsOf(after, id) = {})

\* A pass is about to commit that found a fully spent accepted transaction
\* below the cutoff, one of whose spenders is not below the cutoff: the
\* output that one spends and the acceptance row are left.
C33_Witness ==
    /\ AtCommit
    /\ \E id \in StoredTxIds :
          /\ FullySpentExpired(Store, id)
          /\ \E o \in OutputsOf(Store, id) :
                /\ ExpiredSpenders(Store, o) = {}
                /\ o \in pr_tx[1].st.transactions_outputs
          /\ \E o \in OutputsOf(Store, id) : o \notin pr_tx[1].st.transactions_outputs
          /\ AcceptedIn(pr_tx[1].st, id)

\* A pass is about to commit that removes a fully spent transaction whole.
C33_WitnessRemoved ==
    /\ AtCommit
    /\ \E id \in StoredTxIds :
          FullySpentExpired(Store, id) /\ RemovedWhole(pr_tx[1].st, id)


\* ------------------------------------------------------------ C34
\* What the transactions step has recorded in the metrics.
TxStepResult == {r \in pr_results : r.name = "transactions"}
\* the expired transactions of st without an acceptance row
RejectedExpired(st, cutoff) ==
    {t.transaction_id : t \in {x \in st.transactions : x.block_time < cutoff}}
        \ {ta.transaction_id : ta \in st.transactions_acceptances}

\* C34: the transactions prune step is all-or-nothing.  While its store
\* transaction is open no table changes; it ends either by an error that
\* leaves every table unchanged, or by a commit that applies all its phases
\* together, and then every expired transaction without an acceptance row is
\* gone with its inputs and its outputs.
C34_TransactionsStepAtomic ==
    [][pr_tx # None =>
          \/ /\ UNCHANGED storeVars
             /\ pr_tx' = None =>
                   TxStepResult' = {StepResult("transactions", Some(FALSE), None)}
          \/ /\ pr_tx' = None
             /\ TxStepResult' # {StepResult("transactions", Some(FALSE), None)}
             /\ Store' = prune_transactions(Store, pr_tx[1].block_time_lt)
             /\ \A id \in RejectedExpired(Store, pr_tx[1].block_time_lt) :
                   /\ \A t \in db_transactions' : t.transaction_id # id
                   /\ \A i \in db_transactions_inputs' : i.transaction_id # id
                   /\ \A o \in db_transactions_outputs' : o.transaction_id # id]_vars

\* The transactions step alone has run and committed: the rejected TxR, which
\* had inputs and outputs stored and no acceptance row, is gone with them.
C34_Witness ==
    /\ EnabledSteps = {StepOf("transactions")}
    /\ TxStepResult # {} /\ \A r \in TxStepResult : r.success = Some(TRUE)
    /\ pr_tx = None
    /\ TxR \in RejectedExpired(store_before, step_pruning_point(StepOf("transactions")))
    /\ InputsOf(store_before, TxR) # {} /\ OutputsOf(store_before, TxR) # {}
    /\ InputsOf(Store, TxR) = {} /\ OutputsOf(Store, TxR) = {}
    /\ \A t \in db_transactions : t.transaction_id # TxR

\* The transactions step has failed after its first statements and the tables
\* are as the run found them.
C34_WitnessRollback ==
    /\ EnabledSteps = {StepOf("transactions")}
    /\ TxStepResult = {StepResult("transactions", Some(FALSE), None)}
    /\ Store = store_before
    /\ ExpiredTxIds(db_transactions, step_pruning_point(StepOf("transactions"))) # {}


\* ------------------------------------------------------------ C35
\* The place of a table in the order block_parent, blocks_transactions, blocks
\* (with transactions_acceptances), transactions, addresses_transactions or
\* scripts_transactions; 0 for a step the order does not name.
Rank(name) ==
    CASE name = "block_parent" -> 1
      [] name = "blocks_transactions" -> 2
      [] name \in {"blocks", "transactions_acceptances"} -> 3
      [] name = "transactions" -> 4
      [] name \in {"addresses_transactions", "scripts_transactions"} -> 5
      [] OTHER -> 0
StepNames(results) == {r.name : r \in results}
\* the steps that start with this step of the run
StartedNow == StepNames(pr_results') \ StepNames(pr_results)

\* C35: a prune run executes its enabled steps one after another in the order
\* block_parent, blocks_transactions, blocks (with transactions_acceptances),
\* transactions, addresses_transactions or scripts_transactions: a step starts
\* only when no other is running and no step later in the order has run; the
\* shutdown flag is checked before each step, and once it is set no further
\* step of the run is started.
C35_StepOrderAndShutdown ==
    [][/\ Cardinality(StartedNow) <= 1
       /\ \A n \in StartedNow :
             /\ pr_tx = None
             /\ ~shutdown_sent
             /\ \A q \in StepNames(pr_results) :
                   (Rank(n) # 0 /\ Rank(q) # 0) => Rank(q) <= Rank(n)
             /\ \A q \in StepNames(pr_results) : StepOf(q) < StepOf(n)
       /\ (PrAt("returned") \/ (shutdown_sent /\ pr_pc.at = "step" /\ pr_tx = None))
             => (pr_results' = pr_results /\ pr_tx' = None /\ UNCHANGED storeVars)
      ]_vars

\* A run has returned on the shutdown flag after the blocks step, before the
\* transactions step, which was enabled.
C35_Witness ==
    /\ PrAt("returned")
    /\ {"block_parent", "blocks_transactions", "blocks"} \subseteq StepNames(pr_results)
    /\ retention_of(StepOf("transactions")) # None
    /\ "transactions" \notin StepNames(pr_results)

\* A run has ended with every step run.
C35_WitnessAllSteps ==
    RunEnded /\ Cardinality(pr_results) = Len(Steps)


\* ------------------------------------------------------------ C36
FailedResults == {r \in pr_results : r.success = Some(FALSE)}

\* C36: a pruner step that fails is recorded with success = false and no
\* rows_deleted and does not abort the run: at the end of the run every
\* enabled step has its result, a successful one with its rows_deleted, and
\* the run reports completed_successfully = false if a step has failed and
\* true if none has.
C36_FailedStepRecorded ==
    /\ \A r \in pr_results :
          /\ r.success = Some(FALSE) => r.rows_deleted = None
          /\ r.success = Some(TRUE) => r.rows_deleted # None
    /\ Cardinality(FailedResults) = step_errors
    /\ RunEnded =>
          /\ StepNames(pr_results) = {Steps[k].name : k \in EnabledSteps}
          /\ \A r \in pr_results : r.success # None
          /\ completed_successfully = Some(FailedResults = {})

\* A run has ended in which a step failed and a later step deleted rows; it
\* reports completed_successfully = false.
C36_Witness ==
    /\ RunEnded
    /\ completed_successfully = Some(FALSE)
    /\ \E f \in FailedResults :
          \E r \in pr_results :
              /\ StepOf(f.name) < StepOf(r.name)
              /\ r.success = Some(TRUE)
              /\ r.rows_deleted # None /\ r.rows_deleted[1] > 0

\* A run without a failing step has ended and reports true.
C36_WitnessSuccess ==
    /\ RunEnded /\ pr_results # {} /\ FailedResults = {}
    /\ completed_successfully = Some(TRUE)


\* ------------------------------------------------------ FilterConfig (C37)
\* Strings whose characters validate looks at are sequences of characters.
TagMaxLen == 50
HexDigits == {"0", "1", "2", "3", "4", "5", "6", "7", "8", "9",
              "a", "b", "c", "d", "e", "f", "A", "B", "C", "D", "E", "F"}
HexMarker == <<"h", "e", "x", ":">>
\* prefix.strip_prefix("hex:")
strip_prefix(s, marker) ==
    IF Len(s) >= Len(marker) /\ SubSeq(s, 1, Len(marker)) = marker
    THEN Some(SubSeq(s, Len(marker) + 1, Len(s)))
    ELSE None

\* validate_prefix_condition: "Ok" or the error it returns
validate_prefix_condition(condition) ==
    LET hex_part == strip_prefix(condition.prefix, HexMarker)
    IN IF condition.prefix = << >> THEN "prefix cannot be empty"
       ELSE IF hex_part # None /\ hex_part[1] = << >>
            THEN "hex prefix cannot be empty after 'hex:'"
       ELSE IF hex_part # None
               /\ \E i \in DOMAIN hex_part[1] : hex_part[1][i] \notin HexDigits
            THEN "invalid hex characters"
       ELSE IF hex_part # None /\ Len(hex_part[1]) % 2 # 0
            THEN "hex string must have even length"
       ELSE IF condition.length # None /\ condition.length[1] = 0
            THEN "length must be > 0"
       ELSE "Ok"

\* the first error among the conditions of a sequence, in order
RECURSIVE FirstError(_, _)
FirstError(results, i) ==
    IF i > Len(results) THEN "Ok"
    ELSE IF results[i] # "Ok" THEN results[i]
    ELSE FirstError(results, i + 1)

\* validate_rule
validate_rule(rule) ==
    IF rule.name = "" THEN "Rule name cannot be empty"
    ELSE IF rule.tag = << >> THEN "tag cannot be empty"
    ELSE IF Len(rule.tag) > TagMaxLen THEN "tag must be 1-50 characters"
    ELSE IF rule.conditions.txid = None /\ rule.conditions.payload = None
         THEN "must have at least one condition (txid or payload)"
    ELSE IF rule.conditions.txid # None
            /\ validate_prefix_condition(rule.conditions.txid[1]) # "Ok"
         THEN validate_prefix_condition(rule.conditions.txid[1])
    ELSE IF rule.conditions.payload # None /\ rule.conditions.payload[1] = << >>
         THEN "payload conditions array cannot be empty"
    ELSE IF rule.conditions.payload # None
         THEN FirstError([i \in DOMAIN rule.conditions.payload[1] |->
                            validate_prefix_condition(rule.conditions.payload[1][i])], 1)
    ELSE "Ok"

\* seen_names.insert(&rule.name) returns false for some rule
DuplicateNames(rules) ==
    \E i, j \in DOMAIN rules : i < j /\ rules[i].name = rules[j].name
DuplicateTags(rules) ==
    \E i, j \in DOMAIN rules : i < j /\ rules[i].tag = rules[j].tag

\* FilterConfig::validate
validate(config) ==
    IF config.version # "1.0" THEN "Unsupported config version"
    ELSE IF config.rules = << >> THEN "Configuration must contain at least one rule"
    ELSE IF FirstError([i \in DOMAIN config.rules |-> validate_rule(config.rules[i])], 1)
                # "Ok"
         THEN FirstError([i \in DOMAIN config.rules |-> validate_rule(config.rules[i])], 1)
    ELSE IF DuplicateNames(config.rules) THEN "Duplicate rule name"
    ELSE "Ok"

\* from_file, once the file is parsed: the configuration is validated.
FilterValidate ==
    /\ validated = "none"
    /\ validated' = validate(filter_config)
    /\ UNCHANGED <<filter_config, cfgVars, sigVars, mainVars, peerVars, pruneVars,
                   cacheVars, db_vcp_checkpoint, tdVars, importVars, envVars, pbVars,
                   ptVars, pvVars, cpVars, checkpoint_queue, blockTables, txTables,
                   db_transactions_acceptances, db_block_checkpoint, obsVars, passVars>>

\* The configurations looked at: up to MaxRules rules over a few names, tags,
\* prefixes and lengths, valid and invalid ones.
TagDuplicate == <<"d", "u", "p", "l", "i", "c", "a", "t", "e">>
TagOther == <<"o", "t", "h", "e", "r">>
TagLong == [i \in 1..(TagMaxLen + 1) |-> "x"]
FilterPrefixes ==
    { << >>, <<"t", "e", "s", "t">>, HexMarker,
      HexMarker \o <<"z", "z">>, HexMarker \o <<"a", "b", "c">>,
      HexMarker \o <<"a", "b">> }
PayloadConditions ==
    {[prefix |-> p, length |-> None] : p \in FilterPrefixes}
        \cup {[prefix |-> <<"t", "e", "s", "t">>, length |-> Some(n)] : n \in {0, 4}}
FilterConditions ==
    {[txid |-> t, payload |-> p] :
        t \in {None, Some([prefix |-> <<"t", "e", "s", "t">>, length |-> None])},
        p \in {None, Some(<< >>)} \cup {Some(<<c>>) : c \in PayloadConditions}}
FilterRules ==
    {[name |-> n, tag |-> t, conditions |-> c] :
        n \in {"", "test1", "test2"},
        t \in {<< >>, TagDuplicate, TagOther, TagLong},
        c \in FilterConditions}
FilterConfigs ==
    {[version |-> v, rules |-> r] :
        v \in {"1.0", "2.0"},
        r \in UNION {[1..n -> FilterRules] : n \in 0..MaxRules}}

\* Everything but the filter configuration is as at start-up and stays so.
InitFilter ==
    /\ InitSettings(PruneSettings) /\ PrunerOff /\ CacheOff
    /\ NoImport /\ InitTasks /\ InitStore
    /\ filter_config \in FilterConfigs
    /\ validated = "none"

NextFilter == FilterValidate

SpecFilter == InitFilter /\ [][NextFilter]_vars

\* C37: FilterConfig validation rejects every configuration in which two
\* rules carry the same tag, even when the two rules have different names and
\* are otherwise valid.
C37_DuplicateTagsRejected ==
    (validated # "none" /\ DuplicateTags(filter_config.rules)) => validated # "Ok"

\* The configuration of test_validation_duplicate_tags in kind: two valid
\* rules of different names with one tag have been validated, and accepted.
C37_Witness ==
    /\ validated = "Ok"
    /\ Len(filter_config.rules) = 2
    /\ filter_config.rules[1].name # filter_config.rules[2].name
    /\ filter_config.rules[1].tag = filter_config.rules[2].tag


\* ------------------------------------------------------ resume (C38)
\* The process was stopped and is started again: queues, buffers, caches and
\* every task's memory are those of a fresh start, the store is the one the
\* earlier run left, with blocks and acceptance rows stored past its last
\* saved checkpoint, and the saved block_checkpoint is where fetcher and
\* virtual chain processor resume.
ResumeConfigs ==
    { Config(FALSE, TRUE, BatchSize, TxBatchSize, NumBlocks),
      Config(FALSE, FALSE, 1, 1, NumBlocks) }
InitResume ==
    /\ \E c \in ResumeConfigs : InitConfig(c)
    /\ NoImport
    /\ InitTasks
    /\ \E stored \in 2..ResumeStored, checkpoint \in 1..ResumeStored :
          /\ checkpoint < stored
          /\ node_tip = stored
          /\ StoreIs(IF disable_transaction_processing
                     THEN [StoreOf(<< >>, ChainTo(stored), FALSE)
                             EXCEPT !.blocks = 1..stored,
                                    !.block_parent =
                                        {<<b, p>> \in (1..stored) \X (0..stored) :
                                            p \in Parents(b)}]
                     ELSE StoreOf([k \in 1..stored |-> k], ChainTo(stored), FALSE))
          /\ db_block_checkpoint = checkpoint
          /\ fetch_pos = checkpoint
          /\ start_hash = checkpoint
    /\ db_vcp_checkpoint = NULL
    /\ restarts = 1

NextResume == Next

SpecResume == InitResume /\ [][NextResume]_vars

\* ------------------------------------------------------------ C38
\* The fetcher hands blocks over in the order of the chain it walks, so the
\* first block Block Processor dequeued since start-up is the lowest one.
FirstDequeued == CHOOSE b \in pb_dequeued : \A c \in pb_dequeued : b <= c

\* The Virtual Chain Processor is writing, or has written in its current poll.
VcpWroteThisRun == pv_pc \in {"accept", "push"} \/ vcp_log # << >>

\* C38: at the moment Block Processor sets start_vcp, transactions_acceptances
\* holds no row whose block_hash is a block that Block Processor has flushed
\* since start-up, except possibly the first block it dequeued.
C38_PurgedBeforeVcpStarts ==
    [][(~start_vcp /\ start_vcp') =>
          \A r \in db_transactions_acceptances' :
              r.block_hash \in pb_dequeued => r.block_hash = FirstDequeued]_vars

\* start_vcp has just been set in a run over a store that held
\* acceptance rows of the re-fetched blocks; the Virtual Chain Processor has
\* not written yet, and rows of blocks not re-fetched are still stored.
C38_Witness ==
    /\ start_vcp /\ pb_pc = "publish" /\ ~VcpWroteThisRun
    /\ Cardinality(pb_dequeued) > 1
    /\ \A r \in db_transactions_acceptances :
          r.block_hash \in pb_dequeued => r.block_hash = FirstDequeued
    /\ db_transactions_acceptances # {}


\* ------------------------------------------------------------ C39
\* Time passes for the coordinator while it waits on an empty queue: it pops
\* a candidate as soon as there is one, and an iteration takes no time on the
\* scale of its intervals.
CpTickIdle == checkpoint_queue = << >> /\ CpTick

NextCoordLive == FeedBlocks \/ FeedTxs \/ FeedVcp \/ CpTickIdle \/ CpTimed

\* The processors go on reporting while they have blocks and the queue has
\* room, and the coordinator's loop pops whatever is queued.
InitCoordLive ==
    /\ InitConfig(Config(FALSE, FALSE, 1, 1, LiveLen))
    /\ NoImport
    /\ InitTasks
    /\ InitStore

SpecCoordLive ==
    /\ InitCoordLive /\ [][NextCoordLive]_vars
    /\ WF_vars(FeedBlocks) /\ WF_vars(FeedTxs) /\ WF_vars(FeedVcp)
    /\ WF_vars(CpTimed)

Pending == checkpoint_candidate # None
\* The latest blue scores consumed have passed the pending candidate's by more
\* than the failed timeout.
PassedBy(score) ==
    score > blue_score(checkpoint_candidate[1].hash) + CHECKPOINT_FAILED_TIMEOUT * net_bps
Exceeded ==
    /\ Pending
    /\ PassedBy(last_block_blue_score)
    /\ disable_transaction_processing \/ PassedBy(last_tx_blue_score)
WarningDue == since_last_warned > CHECKPOINT_WARN_INTERVAL

C39_WitnessWarnAgain ==
    Exceeded /\ checkpoint_queue # << >> /\ WarningDue


\* --------------------------------------------------------- FifoCache (C40)
\* map is a function from the keys held to their values, order the queue of
\* keys in the order they were pushed.
CacheKeys == {"a", "b", "c"}
CacheValues == {1, 2}
MapInsert(map, key, value) ==
    [k \in DOMAIN map \cup {key} |-> IF k = key THEN value ELSE map[k]]
MapRemove(map, key) == [k \in DOMAIN map \ {key} |-> map[k]]
Without(seq, key) == SelectSeq2(seq, Range(seq) \ {key})

\* evict_if_needed: while the map is over capacity, keys are popped from the
\* front of order until one of them is found in the map and removed.  A cache
\* is a record of map, order, and what is observed of it: held, the keys in
\* the map in the order of their insertion, and evictions, the pairs of the
\* key evicted and the key that was held longest.
RECURSIVE evict_if_needed(_, _)
evict_if_needed(cache, capacity_) ==
    IF Cardinality(DOMAIN cache.map) > capacity_ /\ cache.order # << >>
    THEN LET old_key == Head(cache.order)
         IN IF old_key \in DOMAIN cache.map
            THEN [map |-> MapRemove(cache.map, old_key),
                  order |-> Tail(cache.order),
                  held |-> Without(cache.held, old_key),
                  evictions |-> Append(cache.evictions,
                                       [evicted |-> old_key,
                                        earliest |-> Head(cache.held)])]
            ELSE evict_if_needed([cache EXCEPT !.order = Tail(@)], capacity_)
    ELSE cache

\* insert, and the body of the loop of extend
insert(cache, key, value, capacity_) ==
    IF key \in DOMAIN cache.map
    THEN [cache EXCEPT !.map = MapInsert(@, key, value)]
    ELSE evict_if_needed([cache EXCEPT !.order = Append(@, key),
                                       !.map = MapInsert(@, key, value),
                                       !.held = Append(@, key)],
                         capacity_)

RECURSIVE extend(_, _, _)
extend(cache, items, capacity_) ==
    IF items = << >> THEN cache
    ELSE extend(insert(cache, Head(items)[1], Head(items)[2], capacity_),
                Tail(items), capacity_)

\* remove: the key leaves the map and stays in order
remove(cache, key) ==
    [cache EXCEPT !.map = MapRemove(@, key), !.held = Without(@, key)]

Cache == [map |-> cache_map, order |-> cache_order, held |-> cache_held,
          evictions |-> << >>]
CacheBecomes(cache) ==
    /\ cache_map' = cache.map /\ cache_order' = cache.order
    /\ cache_held' = cache.held /\ cache_last' = cache.evictions
    /\ cache_ops' = cache_ops + 1
    /\ UNCHANGED <<capacity, cfgVars, sigVars, mainVars, peerVars, pruneVars,
                   filterVars, db_vcp_checkpoint, tdVars, importVars, envVars, pbVars,
                   ptVars, pvVars, cpVars, checkpoint_queue, blockTables, txTables,
                   db_transactions_acceptances, db_block_checkpoint, obsVars, passVars>>

CacheInsert ==
    /\ cache_ops < MaxCacheOps
    /\ \E key \in CacheKeys, value \in CacheValues :
          CacheBecomes(insert(Cache, key, value, capacity))

CacheExtend ==
    /\ cache_ops < MaxCacheOps
    /\ \E k1, k2 \in CacheKeys, value \in CacheValues :
          CacheBecomes(extend(Cache, << <<k1, value>>, <<k2, value>> >>, capacity))

CacheRemove ==
    /\ cache_ops < MaxCacheOps
    /\ \E key \in CacheKeys : CacheBecomes(remove(Cache, key))

\* FifoCache::new(capacity)
InitCache ==
    /\ InitSettings(PruneSettings) /\ PrunerOff /\ FilterOff
    /\ NoImport /\ InitTasks /\ InitStore
    /\ capacity \in 0..MaxCapacity
    /\ cache_map = << >> /\ cache_order = << >>
    /\ cache_held = << >> /\ cache_last = << >> /\ cache_ops = 0

NextCache == CacheInsert \/ CacheExtend \/ CacheRemove

SpecCache == InitCache /\ [][NextCache]_vars

\* After any sequence of operations the cache holds at most capacity entries.
CacheWithinCapacity == Cardinality(DOMAIN cache_map) <= capacity

\* C40: after any sequence of insert, extend and remove the cache holds at
\* most capacity entries, and every eviction of the last operation took the
\* entry that had been inserted earliest among those in the cache, also for a
\* key removed and inserted again.
C40_BoundedFifo ==
    /\ Cardinality(DOMAIN cache_map) <= capacity
    /\ \A i \in DOMAIN cache_last : cache_last[i].evicted = cache_last[i].earliest

\* A key that had been removed and inserted again was evicted while a key
\* inserted before its second insertion is still held.
C40_Witness ==
    /\ cache_last # << >>
    /\ \E i \in DOMAIN cache_last : cache_last[i].evicted # cache_last[i].earliest
    /\ Cardinality(DOMAIN cache_map) = capacity

=============================================================================
